---- MODULE Spec2Model ----
(***************************************************************************)
(* Verification model of the execution-engine layer of rxiv-maker:         *)
(*   - the container session manager (docker/manager.py),                  *)
(*   - the figure rendering engine (commands/generate_figures.py),         *)
(*   - the build orchestrator (commands/build_manager.py).                 *)
(* Each component has its own specification over its own variables; the    *)
(* variables of the other components stay at their initial value.          *)
(***************************************************************************)
EXTENDS Integers, Sequences, FiniteSets, TLC

(***************************************************************************)
(* Bounds and program constants                                            *)
(***************************************************************************)
\* number of container identifiers the backend hands out in one run
MaxContainers == 2

\* DockerManager.__init__: self._session_timeout = 300
SessionTimeoutDefault == 300
\* DockerManager.enable_aggressive_cleanup: self._session_timeout = 60
SessionTimeoutAggressive == 60

\* session_key values used by run_python_script / run_r_script
Keys == {"python_execution", "r_execution"}

\* instants of time.time() the model observes: the default timeout met
\* exactly (over the aggressive one, not over the default) and exceeded by one
TimePoints == {0, SessionTimeoutDefault, SessionTimeoutDefault + 1}

ContainerIds == 1..MaxContainers
\* "no session" (Python None) and "no container"
None == 0

VARIABLES
    sessions,     \* DockerManager._active_sessions: key -> session or NoSession
    reuse,        \* DockerManager.enable_session_reuse
    timeout,      \* DockerManager._session_timeout
    containers,   \* the backend: container id -> [state, key]; state is
                  \* "none" (never created), "running" or "gone"
    nextId,       \* next container identifier the backend returns
    now,          \* time.time()
    last,         \* the manager call that has just returned, and its outcome
    stale         \* ids of the sessions a call found failing the liveness check

sessVars == <<sessions, reuse, timeout, containers, nextId, now, last, stale>>

VARIABLES
    pc,           \* worker thread -> where it is inside _get_or_create_session
    call          \* worker thread -> the locals of its call

concVars == <<pc, call>>

VARIABLES
    cur,            \* position in Stages of the stage invoked last, 0 at first
    started,        \* names of the stages invoked so far, in order
    finished,       \* [name, outcome] of the stages that have ended, in order
    terminal,       \* "Running", "Success" or "Failed"
    warnings,       \* stages that have logged a WARNING
    result,         \* what run_full_build returned: "none" until it returns
    skipValidation, \* the skip_validation option
    styleMissing,   \* the style directory does not exist
    clock,          \* the wall clock the log timestamps are read from
    run,            \* 1 in the first run of the pipeline, 2 in a re-run
    logCalls,       \* the log(message, level) calls of this run, in order
    warningsLog,    \* the file build_warnings.log
    blg,            \* the bibliography tool's own log, <output>/<name>.blg
    bibtexLog,      \* the file bibtex_warnings.log
    bibStep,        \* _log_bibtex_warnings has run in this run
    firstRun        \* what the first run left behind, NoRun until it ends

buildVars == <<cur, started, finished, terminal, warnings, result,
               skipValidation, styleMissing, clock, run, logCalls,
               warningsLog, blg, bibtexLog, bibStep, firstRun>>

\* the part of the orchestrator's state the logging touches
logVars == <<clock, run, logCalls, warningsLog, blg, bibtexLog, bibStep,
             firstRun>>

VARIABLES
    files,        \* the sources found in the figures directory
    tool,         \* source -> what its external tools do in this run
    engine,       \* FigureGenerator.engine: "local" or "docker"
    rOnly,        \* FigureGenerator.r_only
    parallel,     \* the parallel argument of generate_all_figures
    maxWorkers,   \* the max_workers argument of generate_all_figures
    fpc,          \* source -> "queued", "step2", "scan", "done", or "hung"
                  \* (inside an external command that never exits)
    disk,         \* the files under the output directory, with their writer
    reported,     \* source -> the paths its task announced as generated
    flog,         \* source -> levels of the messages its task printed
    genStatus,    \* source -> how generate_*_figure ended
    outcome,      \* source -> what the caller of the generator recorded
    invoked,      \* source -> the external commands and conversions its
                  \* task has started
    dispatched,   \* source -> the kinds of the render tasks started for it,
                  \* in the order they were started
    batch         \* generate_all_figures: "running", "done" or "raised"

figVars == <<files, tool, engine, rOnly, parallel, maxWorkers, fpc, disk,
             reported, flog, genStatus, outcome, invoked, dispatched,
             batch>>

VARIABLES
    passes,       \* run_latex_compilation: the passes argument
    bibFile,      \* tex_file.with_suffix(".bib").exists()
    passIndex,    \* the loop variable i
    latexPc,      \* "idle", "pdflatex", "bibtex", "blocked" or "returned"
    results       \* the list results: one record per completed run_command

latexVars == <<passes, bibFile, passIndex, latexPc, results>>

VARIABLES
    printers,     \* the work items process_figure runs on for this batch
    printLock,    \* print_lock: the set of its holders, empty when free
    wpc,          \* work item -> where its process_figure call is
    genLines      \* work item -> lines its generator has still to print

printVars == <<printers, printLock, wpc, genLines>>

\* everything the single-threaded manager calls leave alone
notSessVars == <<concVars, buildVars, figVars, latexVars, printVars>>

\* what the worker threads leave alone besides the manager's state
notConcVars == <<buildVars, figVars, latexVars, printVars>>

\* everything the build stages leave alone
notBuildVars == <<sessVars, concVars, figVars, latexVars, printVars>>

\* everything the render tasks leave alone
notFigVars == <<sessVars, concVars, buildVars, latexVars, printVars>>

\* everything run_latex_compilation leaves alone
notLatexVars == <<sessVars, concVars, buildVars, figVars, printVars>>

\* everything the console output of the workers leaves alone
notPrintVars == <<sessVars, concVars, buildVars, figVars, latexVars>>

vars == <<sessVars, concVars, buildVars, figVars, latexVars, printVars>>

(***************************************************************************)
(* DockerSession                                                           *)
(***************************************************************************)
NoSession == [container_id |-> None, created_at |-> 0, active |-> FALSE]

\* DockerSession.__init__
DockerSession(cid, t) == [container_id |-> cid, created_at |-> t, active |-> TRUE]

\* what `docker container inspect` can answer for a container in state cs:
\*   "running"  returncode 0, stdout "true"
\*   "stopped"  returncode 0, stdout not "true"
\*   "error"    returncode # 0 (no such container, daemon error)
\*   "timeout"  subprocess.TimeoutExpired after 5 s
ProbeOutcomes(cs) ==
    IF cs = "running" THEN {"running", "error", "timeout"}
    ELSE {"stopped", "error", "timeout"}

\* is_active as it would be if a non-zero exit of the probe counted as alive
IsActiveErrorAlive(s, probe) ==
    IF ~s.active THEN [ret |-> FALSE, active |-> FALSE]
    ELSE CASE probe = "running" -> [ret |-> TRUE,  active |-> TRUE]
           [] probe = "stopped" -> [ret |-> FALSE, active |-> FALSE]
           [] probe = "error"   -> [ret |-> TRUE,  active |-> TRUE]
           [] OTHER             -> [ret |-> FALSE, active |-> FALSE]

\* DockerSession.is_active: the value returned and the _active flag left
IsActive(s, probe) ==
    IF ~s.active THEN [ret |-> FALSE, active |-> FALSE]
    ELSE CASE probe = "running" -> [ret |-> TRUE,  active |-> TRUE]
           [] probe = "stopped" -> [ret |-> FALSE, active |-> FALSE]
           [] probe = "error"   -> [ret |-> FALSE, active |-> TRUE]
           [] OTHER             -> [ret |-> FALSE, active |-> FALSE]

\* outcomes of `docker stop` (timeout 10 s) followed by `docker rm`:
\*   "ok"    both succeed, the container is gone
\*   "fail"  stop exits non-zero (and so does rm, of a running container), or
\*           stop raises TimeoutExpired and rm is not attempted: either way
\*           the container is left as it was and the caller goes on
StopOutcomes == {"ok", "fail"}

\* DockerSession.cleanup: does it call the backend at all
CleanupIssued(s) == s.active

\* DockerSession.cleanup: state of the session's container afterwards
CleanupContainer(s, cs, stop) ==
    IF ~CleanupIssued(s) THEN cs
    ELSE IF stop = "ok" THEN "gone" ELSE cs

(***************************************************************************)
(* DockerManager: session table operations                                 *)
(***************************************************************************)
\* the age test as it would be if no session ever counted as over age
OverAgeNever(s, t, to) == FALSE

\* the age test of _cleanup_expired_sessions
OverAge(s, t, to) == t - s.created_at > to

\* the condition of _cleanup_expired_sessions; `or` evaluates is_active only
\* for a session that is not over age
IsExpired(s, t, to, probe) == OverAge(s, t, to) \/ ~IsActive(s, probe).ret

\* the session object as the expiry test leaves it (is_active may clear _active)
AfterExpiryTest(s, t, to, probe) ==
    IF OverAge(s, t, to) THEN s
    ELSE [s EXCEPT !.active = IsActive(s, probe).active]

\* the keys _cleanup_expired_sessions collects in expired_keys
ExpiredKeys(tbl, t, to, probe) ==
    {k \in Keys : tbl[k] # NoSession /\ IsExpired(tbl[k], t, to, probe[k])}

\* DockerManager._cleanup_expired_sessions: table and backend afterwards
CleanupExpiredSessions(tbl, ctr, t, to, probe, stop) ==
    LET exp == ExpiredKeys(tbl, t, to, probe)
        owner(c) == CHOOSE k \in exp : tbl[k].container_id = c
    IN  [sessions |-> [k \in Keys |-> IF k \in exp THEN NoSession ELSE tbl[k]],
         containers |->
            [c \in ContainerIds |->
                IF \E k \in exp : tbl[k].container_id = c
                THEN [ctr[c] EXCEPT !.state =
                        CleanupContainer(
                            AfterExpiryTest(tbl[owner(c)], t, to, probe[owner(c)]),
                            ctr[c].state, stop[owner(c)])]
                ELSE ctr[c]]]

\* outcomes of the detached `docker run ... sleep infinity` (timeout 30 s):
\*   "ok"    returncode 0, stdout is the new container id
\*   "fail"  returncode # 0, or subprocess.TimeoutExpired: either way nothing
\*           is stored and None is returned
LaunchOutcomes == {"ok", "fail"}

\* the lookup as it would be if it never found the tracked session
ReuseTrackedNever(s, probe2) == FALSE

\* lines 220-227 of _get_or_create_session: is the tracked session returned
ReuseTracked(s, probe2) == s # NoSession /\ IsActive(s, probe2).ret

\* the store as it would be if the outcome of the launch were not tested
LaunchStoredOnFailure(launch) == launch # "none"

\* lines 242-246 of _get_or_create_session: is a new session stored
LaunchStored(launch) == launch = "ok"

\* DockerManager._get_or_create_session
GetOrCreateSession(tbl, ctr, id, t, to, enabled, k, probe, stop, probe2, launch) ==
    IF ~enabled
    THEN [sessions |-> tbl, containers |-> ctr, nextId |-> id,
          ret |-> None, launched |-> None]
    ELSE
      LET c1 == CleanupExpiredSessions(tbl, ctr, t, to, probe, stop)
          s  == c1.sessions[k]
      IN  IF ReuseTracked(s, probe2)
          THEN [sessions |-> c1.sessions, containers |-> c1.containers,
                nextId |-> id, ret |-> s.container_id, launched |-> None]
          ELSE IF LaunchStored(launch)
          THEN [sessions |-> [c1.sessions EXCEPT ![k] = DockerSession(id, t)],
                containers |-> [c1.containers EXCEPT
                                  ![id] = [state |-> "running", key |-> k]],
                nextId |-> id + 1, ret |-> id, launched |-> id]
          ELSE [sessions |-> [c1.sessions EXCEPT ![k] = NoSession],
                containers |-> c1.containers, nextId |-> id,
                ret |-> None, launched |-> None]

\* DockerManager._build_docker_command, lines 161-168: the options of
\* `docker run` that depend on its remove and detach arguments
DockerRunOptions(remove, detach) ==
    (IF remove /\ ~detach THEN {"--rm"} ELSE {}) \cup
    (IF detach THEN {"-d"} ELSE {})

\* run_command as it would be if it never used the session it obtained
ExecModeThrowaway(session, probe3) == "throwaway"

\* DockerManager.run_command, lines 303-332: "exec" into the session's
\* container, or a "throwaway" `docker run --rm` container
ExecMode(session, probe3) ==
    IF session # NoSession /\ IsActive(session, probe3).ret
    THEN "exec" ELSE "throwaway"

\* DockerManager.run_command, lines 305-313: the container `docker exec` names
ExecTarget(session, probe3) ==
    IF ExecMode(session, probe3) = "exec" THEN session.container_id ELSE None

\* DockerManager.run_command, lines 324-332: the `docker run` options of the
\* container built by _build_docker_command(command, image, working_dir,
\* volumes, environment), i.e. with remove=True and detach=False
ExecOptions(session, probe3) ==
    IF ExecMode(session, probe3) = "exec" THEN {}
    ELSE DockerRunOptions(TRUE, FALSE)

\* the environment argument of run_python_script / run_r_script as
\* generate_python_figure and generate_r_figure pass it
ScriptEnvironment == {"RXIV_FIGURE_OUTPUT_DIR"}

\* DockerManager._base_env: the host's RXIV_ENGINE, passed through
BaseEnvironment == {"RXIV_ENGINE"}

\* run_command as it would be if `docker exec` were given the environment
ExecEnvironmentBothPaths(session, probe3, environment) ==
    BaseEnvironment \cup environment

\* DockerManager.run_command, lines 303-332: the variables the command is
\* started with.  `docker exec -w working_dir container_id ...` carries no -e
\* option, so the command sees what the session container was created with
\* (the base environment, lines 230-235); _build_docker_command adds a -e
\* option for the base environment and for every entry of `environment`
ExecEnvironment(session, probe3, environment) ==
    IF ExecMode(session, probe3) = "exec" THEN BaseEnvironment
    ELSE BaseEnvironment \cup environment

\* DockerManager.run_command with a session key, up to the choice of exec_cmd;
\* g is what its call of _get_or_create_session returned and left behind
RunCommandSession(g, k, probe3) ==
    [sessions |->
        IF g.ret = None THEN g.sessions
        ELSE [j \in Keys |->
                IF j = k
                THEN [g.sessions[j] EXCEPT
                        !.active = IsActive(g.sessions[j], probe3).active]
                ELSE g.sessions[j]],
     containers |-> g.containers, nextId |-> g.nextId,
     ret |-> g.ret, launched |-> g.launched,
     mode |-> ExecMode(IF g.ret = None THEN NoSession ELSE g.sessions[k], probe3),
     target |-> ExecTarget(IF g.ret = None THEN NoSession ELSE g.sessions[k],
                           probe3),
     opts |-> ExecOptions(IF g.ret = None THEN NoSession ELSE g.sessions[k],
                          probe3),
     env |-> ExecEnvironment(IF g.ret = None THEN NoSession ELSE g.sessions[k],
                             probe3, ScriptEnvironment)]

\* DockerManager.cleanup_all_sessions: table and backend afterwards
CleanupAllSessions(tbl, ctr, stop) ==
    [sessions |-> [k \in Keys |-> NoSession],
     containers |->
        [c \in ContainerIds |->
            IF \E k \in Keys : tbl[k] # NoSession /\ tbl[k].container_id = c
            THEN LET k == CHOOSE k \in Keys :
                            tbl[k] # NoSession /\ tbl[k].container_id = c
                 IN  [ctr[c] EXCEPT !.state =
                        CleanupContainer(tbl[k], ctr[c].state, stop[k])]
            ELSE ctr[c]]]

\* enable_aggressive_cleanup as it would be if it left session reuse on
AggressiveCleanupKeepsReuse(enabled) ==
    [timeout |-> IF enabled THEN SessionTimeoutAggressive
                 ELSE SessionTimeoutDefault,
     reuse |-> TRUE]

\* DockerManager.enable_aggressive_cleanup: the timeout and reuse flag it sets
AggressiveCleanupConfig(enabled) ==
    IF enabled
    THEN [timeout |-> SessionTimeoutAggressive, reuse |-> FALSE]
    ELSE [timeout |-> SessionTimeoutDefault, reuse |-> TRUE]

(***************************************************************************)
(* What the backend can answer in the current state.  An answer that the   *)
(* code does not ask for is "none".                                        *)
(***************************************************************************)
\* first probe of every tracked, not over-age, still active session
ProbesFor(tbl, ctr, t, to) ==
    {p \in [Keys -> {"none", "running", "stopped", "error", "timeout"}] :
        \A k \in Keys :
            IF tbl[k] = NoSession \/ OverAge(tbl[k], t, to) \/ ~tbl[k].active
            THEN p[k] = "none"
            ELSE p[k] \in ProbeOutcomes(ctr[tbl[k].container_id].state)}

\* stop/rm of every expired session whose cleanup calls the backend
StopsFor(tbl, t, to, probe) ==
    {st \in [Keys -> StopOutcomes \cup {"none"}] :
        \A k \in Keys :
            (st[k] # "none") <=>
                /\ k \in ExpiredKeys(tbl, t, to, probe)
                /\ CleanupIssued(AfterExpiryTest(tbl[k], t, to, probe[k]))}

\* second probe, of the session of key k that survived the expiry pass
Probe2For(tbl, ctr, t, to, probe, k) ==
    IF tbl[k] = NoSession \/ k \in ExpiredKeys(tbl, t, to, probe)
    THEN {"none"}
    ELSE ProbeOutcomes(ctr[tbl[k].container_id].state)

\* the launch, attempted when no tracked session is returned; the backend
\* hands out at most MaxContainers identifiers
LaunchFor(tbl, t, to, probe, probe2, k, id) ==
    IF k \notin ExpiredKeys(tbl, t, to, probe) /\ ReuseTracked(tbl[k], probe2)
    THEN {"none"}
    ELSE IF id \in ContainerIds THEN LaunchOutcomes ELSE {"fail"}

\* the launch as the call saw it
LaunchResult(launch) ==
    CASE launch = "none" -> "none" [] launch = "ok" -> "ok" [] OTHER -> "failed"

\* `alive`: the probe of run_command itself answered "running"
\* `faults`: which backend commands of the call failed or timed out
\* how the call found the session of its key:
\*   "none"   no session tracked          "aged"   tracked, over the timeout
\*   "live"   tracked, every probe of the call passed
\*   "stale"  tracked, is_active() returned False in the call
Found(s, t, to, p1, p2) ==
    CASE s = NoSession -> "none"
      [] t - s.created_at > to -> "aged"
      [] s.active /\ p1 = "running" /\ p2 = "running" -> "live"
      [] OTHER -> "stale"

\* the ids found stale so far, after a call that found the session of its key
\* as `found`
StaleAfter(old, prev, found) == IF found = "stale" THEN old \cup {prev} ELSE old

\* the backend commands of a call, on the session of its key, that exited
\* non-zero or timed out: p1, p2 the inspects of _get_or_create_session, st its
\* stop/rm, launch its detached run, p3 the inspect of run_command
Faults(p1, p2, st, launch, p3) ==
    (IF {p1, p2} \cap {"error", "timeout"} # {} THEN {"inspect"} ELSE {}) \cup
    (IF st = "fail" THEN {"stop"} ELSE {}) \cup
    (IF launch = "fail" THEN {"create"} ELSE {}) \cup
    (IF p3 \in {"error", "timeout"} THEN {"recheck"} ELSE {})

\* third probe, by run_command, of the session _get_or_create_session returned
Probe3For(ctr, ret) ==
    IF ret = None THEN {"none"} ELSE ProbeOutcomes(ctr[ret].state)

\* stop/rm of every tracked session whose cleanup calls the backend
StopsForAll(tbl) ==
    {st \in [Keys -> StopOutcomes \cup {"none"}] :
        \A k \in Keys :
            (st[k] # "none") <=> (tbl[k] # NoSession /\ CleanupIssued(tbl[k]))}

\* the configuration a call found: _session_timeout and enable_session_reuse
Config(tmo, ru) == [timeout |-> tmo, reuse |-> ru]

\* the value of the field cfg for calls that do not change the configuration
NoConfig == Config(0, FALSE)

NoCall == [op |-> "none", key |-> "", prev |-> None, found |-> "none",
           launch |-> "none", ret |-> None, launched |-> None, mode |-> "none",
           alive |-> FALSE, target |-> None, opts |-> {}, env |-> {},
           faults |-> {}, cfg |-> NoConfig]

(***************************************************************************)
(* Initial state: DockerManager.__init__(enable_session_reuse = ...)        *)
(***************************************************************************)
SessInit ==
    /\ sessions = [k \in Keys |-> NoSession]
    /\ reuse \in BOOLEAN
    /\ timeout = SessionTimeoutDefault
    /\ containers = [c \in ContainerIds |-> [state |-> "none", key |-> ""]]
    /\ nextId = 1
    /\ now = 0
    /\ last = NoCall
    /\ stale = {}

(***************************************************************************)
(* Manager calls, one atomic action per call                               *)
(***************************************************************************)
\* a direct call of _get_or_create_session(k, image)
GetOrCreate(k) ==
    /\ reuse
    /\ \E probe \in ProbesFor(sessions, containers, now, timeout) :
       \E stop \in StopsFor(sessions, now, timeout, probe) :
       \E probe2 \in Probe2For(sessions, containers, now, timeout, probe, k) :
       \E launch \in LaunchFor(sessions, now, timeout, probe, probe2, k, nextId) :
       \E r \in {GetOrCreateSession(sessions, containers, nextId, now, timeout,
                                    reuse, k, probe, stop, probe2, launch)} :
            /\ sessions' = r.sessions
            /\ containers' = r.containers
            /\ nextId' = r.nextId
            /\ last' = [op |-> "getOrCreate", key |-> k,
                        prev |-> sessions[k].container_id,
                        found |-> Found(sessions[k], now, timeout, probe[k], probe2),
                        launch |-> LaunchResult(launch),
                        ret |-> r.ret, launched |-> r.launched, mode |-> "none",
                        alive |-> FALSE, target |-> None, opts |-> {},
                        faults |-> Faults(probe[k], probe2, stop[k], launch,
                                          "none")]
            /\ stale' = StaleAfter(stale, sessions[k].container_id,
                                   Found(sessions[k], now, timeout, probe[k],
                                         probe2))
    /\ UNCHANGED <<reuse, timeout, now>>
    /\ UNCHANGED notSessVars

\* _get_or_create_session with session reuse disabled: returns None at once
GetOrCreateDisabled(k) ==
    /\ ~reuse
    /\ \E r \in {GetOrCreateSession(sessions, containers, nextId, now, timeout,
                                    reuse, k, <<>>, <<>>, "none", "none")} :
           /\ sessions' = r.sessions
           /\ containers' = r.containers
           /\ nextId' = r.nextId
           /\ last' = [NoCall EXCEPT !.op = "getOrCreate", !.key = k,
                          !.prev = sessions[k].container_id,
                          !.ret = r.ret, !.launched = r.launched]
    /\ UNCHANGED <<reuse, timeout, now, stale>>
    /\ UNCHANGED notSessVars

\* run_command(command, session_key=k) with session reuse enabled
RunCommand(k) ==
    /\ reuse
    /\ \E probe \in ProbesFor(sessions, containers, now, timeout) :
       \E stop \in StopsFor(sessions, now, timeout, probe) :
       \E probe2 \in Probe2For(sessions, containers, now, timeout, probe, k) :
       \E launch \in LaunchFor(sessions, now, timeout, probe, probe2, k, nextId) :
       \E g \in {GetOrCreateSession(sessions, containers, nextId, now, timeout,
                                    reuse, k, probe, stop, probe2, launch)} :
       \E probe3 \in Probe3For(g.containers, g.ret) :
       \E r \in {RunCommandSession(g, k, probe3)} :
                /\ sessions' = r.sessions
                /\ containers' = r.containers
                /\ nextId' = r.nextId
                /\ last' = [op |-> "runCommand", key |-> k,
                            prev |-> sessions[k].container_id,
                            found |-> Found(sessions[k], now, timeout, probe[k],
                                            probe2),
                            launch |-> LaunchResult(launch),
                            ret |-> r.ret, launched |-> r.launched,
                            mode |-> r.mode, alive |-> probe3 = "running",
                            target |-> r.target, opts |-> r.opts,
                            env |-> r.env,
                            faults |-> Faults(probe[k], probe2, stop[k],
                                              launch, probe3)]
                /\ stale' = StaleAfter(stale, sessions[k].container_id,
                                       Found(sessions[k], now, timeout,
                                             probe[k], probe2))
    /\ UNCHANGED <<reuse, timeout, now>>
    /\ UNCHANGED notSessVars

\* run_command without a session key, or with session reuse disabled: the
\* command runs in a throwaway container and the table is not touched
RunCommandAdHoc ==
    /\ \E k \in Keys \cup {""} :
        /\ k # "" => ~reuse
        /\ last' = [NoCall EXCEPT !.op = "runCommand", !.key = k,
                       !.mode = ExecMode(NoSession, "none"),
                       !.target = ExecTarget(NoSession, "none"),
                       !.opts = ExecOptions(NoSession, "none"),
                       !.env = ExecEnvironment(NoSession, "none",
                                               ScriptEnvironment)]
    /\ UNCHANGED <<sessions, reuse, timeout, containers, nextId, now, stale>>
    /\ UNCHANGED notSessVars

\* cleanup_all_sessions()
CleanupAll ==
    /\ \E stop \in StopsForAll(sessions) :
        \E r \in {CleanupAllSessions(sessions, containers, stop)} :
            /\ sessions' = r.sessions
            /\ containers' = r.containers
    /\ last' = [NoCall EXCEPT !.op = "cleanupAll"]
    /\ UNCHANGED <<reuse, timeout, nextId, now, stale>>
    /\ UNCHANGED notSessVars

\* enable_aggressive_cleanup(enabled)
EnableAggressiveCleanup ==
    /\ \E enabled \in BOOLEAN :
        /\ timeout' = AggressiveCleanupConfig(enabled).timeout
        /\ reuse' = AggressiveCleanupConfig(enabled).reuse
        /\ last' = [NoCall EXCEPT !.op = IF enabled
                                        THEN "enableAggressiveCleanup"
                                        ELSE "disableAggressiveCleanup",
                                  !.cfg = Config(timeout, reuse)]
    /\ UNCHANGED <<sessions, containers, nextId, now, stale>>
    /\ UNCHANGED notSessVars

\* a direct call of _cleanup_expired_sessions()
CleanupExpired ==
    /\ \E probe \in ProbesFor(sessions, containers, now, timeout) :
       \E stop \in StopsFor(sessions, now, timeout, probe) :
       \E r \in {CleanupExpiredSessions(sessions, containers, now, timeout,
                                        probe, stop)} :
            /\ sessions' = r.sessions
            /\ containers' = r.containers
            /\ last' = [NoCall EXCEPT !.op = "cleanupExpired"]
    /\ UNCHANGED <<reuse, timeout, nextId, now, stale>>
    /\ UNCHANGED notSessVars

\* the process that owns the manager ends: generate_all_figures or the build
\* has returned or raised, or the process was interrupted.  No code path of
\* the repository calls cleanup_all_sessions or cleanup_global_docker_manager
\* before exit, and no atexit or signal handler is installed, so the only
\* release is DockerManager.__del__ (cleanup_all_sessions with exceptions
\* suppressed), which the interpreter may or may not run for an object that
\* still exists at exit.
ProcessExit ==
    /\ last.op # "exit"
    /\ \E finalized \in BOOLEAN :
        \E stop \in StopsForAll(sessions) :
        \E r \in {CleanupAllSessions(sessions, containers, stop)} :
            /\ sessions' = IF finalized THEN r.sessions ELSE sessions
            /\ containers' = IF finalized THEN r.containers ELSE containers
    /\ last' = [NoCall EXCEPT !.op = "exit"]
    /\ UNCHANGED <<reuse, timeout, nextId, now, stale>>
    /\ UNCHANGED notSessVars

\* time passes between calls
Tick ==
    /\ \E t \in TimePoints : t > now /\ now' = t
    /\ last' = NoCall
    /\ UNCHANGED <<sessions, reuse, timeout, containers, nextId, stale>>
    /\ UNCHANGED notSessVars

\* the keep-alive process of a container ends outside the manager's control
ContainerExits ==
    /\ \E c \in ContainerIds :
        /\ containers[c].state = "running"
        /\ containers' = [containers EXCEPT ![c].state = "gone"]
    /\ last' = NoCall
    /\ UNCHANGED <<sessions, reuse, timeout, nextId, now, stale>>
    /\ UNCHANGED notSessVars

(***************************************************************************)
(* _get_or_create_session called from the worker threads of                *)
(* _generate_figures_parallel.  The manager is one shared object and the   *)
(* method takes no lock, so the threads interleave at its blocking backend *)
(* calls.  The backend here answers truthfully and never fails: a probe    *)
(* says "running" exactly for a running container, stop/rm and the         *)
(* detached run succeed.                                                   *)
(***************************************************************************)
Threads == {"worker_1", "worker_2"}

\* the locals of a thread that is not inside the method
IdleCall ==
    [key |-> "", todo |-> {}, size |-> 0, expired |-> {}, held |-> NoSession,
     ret |-> None, launched |-> None, nolive |-> FALSE, overlap |-> FALSE]

ConcInit ==
    /\ pc = [t \in Threads |-> "idle"]
    /\ call = [t \in Threads |-> IdleCall]

\* the keys of _active_sessions
Tracked(tbl) == {k \in Keys : tbl[k] # NoSession}

\* the answer of a truthful `docker container inspect`
TruthfulProbe(ctr, s) ==
    IF s.container_id # None /\ ctr[s.container_id].state = "running"
    THEN "running" ELSE "stopped"

\* thread t is between the entry and the return of the method
InFlight(t) == pc[t] \in {"iter", "delete", "check", "probe", "launch"}

\* key k has a tracked session whose container runs
LiveSession(k) ==
    sessions[k] # NoSession /\ TruthfulProbe(containers, sessions[k]) = "running"

\* entry: the reuse test, then the iterator of _cleanup_expired_sessions is
\* created over the table as it is now
ConcBegin(t, k) ==
    /\ pc[t] = "idle"
    /\ pc' = [pc EXCEPT ![t] = IF reuse THEN "iter" ELSE "done"]
    /\ call' = [u \in Threads |->
                  IF u = t
                  THEN [IdleCall EXCEPT
                          !.key = k,
                          !.todo = IF reuse THEN Tracked(sessions) ELSE {},
                          !.size = IF reuse THEN Cardinality(Tracked(sessions))
                                   ELSE 0,
                          !.nolive = ~LiveSession(k),
                          !.overlap = \E v \in Threads \ {t} :
                                          InFlight(v) /\ call[v].key = k]
                  ELSE IF InFlight(u) /\ call[u].key = k
                  THEN [call[u] EXCEPT !.overlap = TRUE]
                  ELSE call[u]]
    /\ UNCHANGED sessVars
    /\ UNCHANGED notConcVars

\* one round of the `for key, session in self._active_sessions.items()` loop:
\* the dict iterator raises RuntimeError when the table changed size; else
\* the next session is tested and, if expired, cleaned up and noted
ConcIter(t) ==
    /\ pc[t] = "iter"
    /\ \/ /\ Cardinality(Tracked(sessions)) # call[t].size
          /\ pc' = [pc EXCEPT ![t] = "raised"]
          /\ UNCHANGED <<call, sessions, containers>>
       \/ /\ Cardinality(Tracked(sessions)) = call[t].size
          /\ call[t].todo \cap Tracked(sessions) = {}
          /\ pc' = [pc EXCEPT ![t] = "delete"]
          /\ UNCHANGED <<call, sessions, containers>>
       \/ /\ Cardinality(Tracked(sessions)) = call[t].size
          /\ \E j \in call[t].todo \cap Tracked(sessions) :
             \E p \in {TruthfulProbe(containers, sessions[j])} :
                IF IsExpired(sessions[j], now, timeout, p)
                THEN /\ containers' =
                          [containers EXCEPT ![sessions[j].container_id] =
                              [state |-> CleanupContainer(
                                    AfterExpiryTest(sessions[j], now, timeout, p),
                                    containers[sessions[j].container_id].state,
                                    "ok"),
                               key |-> containers[sessions[j].container_id].key]]
                     /\ sessions' = [i \in Keys |->
                                       IF i = j
                                       THEN [sessions[i] EXCEPT !.active = FALSE]
                                       ELSE sessions[i]]
                     /\ call' = [call EXCEPT
                                   ![t] = [call[t] EXCEPT
                                             !.todo = call[t].todo \ {j},
                                             !.expired = call[t].expired \cup {j}]]
                ELSE /\ call' = [call EXCEPT
                                   ![t] = [call[t] EXCEPT
                                             !.todo = call[t].todo \ {j}]]
                     /\ UNCHANGED <<sessions, containers>>
          /\ UNCHANGED pc
    /\ UNCHANGED <<reuse, timeout, nextId, now, last, stale>>
    /\ UNCHANGED notConcVars

\* one round of `for key in expired_keys: del self._active_sessions[key]`;
\* del raises KeyError for a key another thread has removed meanwhile
ConcDelete(t) ==
    /\ pc[t] = "delete"
    /\ \/ /\ call[t].expired = {}
          /\ pc' = [pc EXCEPT ![t] = "check"]
          /\ UNCHANGED <<call, sessions>>
       \/ \E j \in call[t].expired :
            /\ j \in Tracked(sessions)
            /\ sessions' = [i \in Keys |-> IF i = j THEN NoSession ELSE sessions[i]]
            /\ call' = [call EXCEPT
                          ![t] = [call[t] EXCEPT !.expired = call[t].expired \ {j}]]
            /\ UNCHANGED pc
       \/ \E j \in call[t].expired :
            /\ j \notin Tracked(sessions)
            /\ pc' = [pc EXCEPT ![t] = "raised"]
            /\ UNCHANGED <<call, sessions>>
    /\ UNCHANGED <<reuse, timeout, containers, nextId, now, last, stale>>
    /\ UNCHANGED notConcVars

\* `if session_key in self._active_sessions: session = ...[session_key]`
ConcCheck(t) ==
    /\ pc[t] = "check"
    /\ IF call[t].key \in Tracked(sessions)
       THEN /\ pc' = [pc EXCEPT ![t] = "probe"]
            /\ call' = [call EXCEPT
                          ![t] = [call[t] EXCEPT !.held = sessions[call[t].key]]]
       ELSE /\ pc' = [pc EXCEPT ![t] = "launch"]
            /\ UNCHANGED call
    /\ UNCHANGED sessVars
    /\ UNCHANGED notConcVars

\* `if session.is_active(): return session`, else
\* `del self._active_sessions[session_key]`, which removes whatever session
\* the key maps to by now and raises KeyError if it maps to none
ConcProbe(t) ==
    /\ pc[t] = "probe"
    /\ \/ /\ IsActive(call[t].held, TruthfulProbe(containers, call[t].held)).ret
          /\ pc' = [pc EXCEPT ![t] = "done"]
          /\ call' = [call EXCEPT
                        ![t] = [call[t] EXCEPT
                                  !.ret = call[t].held.container_id]]
          /\ UNCHANGED sessions
       \/ /\ ~IsActive(call[t].held, TruthfulProbe(containers, call[t].held)).ret
          /\ call[t].key \in Tracked(sessions)
          /\ sessions' = [i \in Keys |->
                            IF i = call[t].key THEN NoSession ELSE sessions[i]]
          /\ pc' = [pc EXCEPT ![t] = "launch"]
          /\ UNCHANGED call
       \/ /\ ~IsActive(call[t].held, TruthfulProbe(containers, call[t].held)).ret
          /\ call[t].key \notin Tracked(sessions)
          /\ pc' = [pc EXCEPT ![t] = "raised"]
          /\ UNCHANGED <<call, sessions>>
    /\ UNCHANGED <<reuse, timeout, containers, nextId, now, last, stale>>
    /\ UNCHANGED notConcVars

\* the detached `docker run ... sleep infinity` and the store of the new
\* session under the key
ConcLaunch(t) ==
    /\ pc[t] = "launch"
    /\ nextId \in ContainerIds
    /\ containers' = [containers EXCEPT
                        ![nextId] = [state |-> "running", key |-> call[t].key]]
    /\ sessions' = [i \in Keys |->
                      IF i = call[t].key THEN DockerSession(nextId, now)
                      ELSE sessions[i]]
    /\ nextId' = nextId + 1
    /\ pc' = [pc EXCEPT ![t] = "done"]
    /\ call' = [call EXCEPT
                  ![t] = [call[t] EXCEPT !.ret = nextId, !.launched = nextId]]
    /\ UNCHANGED <<reuse, timeout, now, last, stale>>
    /\ UNCHANGED notConcVars

\* the caller takes the result (or the exception) and the thread is free
ConcReturn(t) ==
    /\ pc[t] \in {"done", "raised"}
    /\ pc' = [pc EXCEPT ![t] = "idle"]
    /\ call' = [call EXCEPT ![t] = IdleCall]
    /\ UNCHANGED sessVars
    /\ UNCHANGED notConcVars

\* run_command goes on with the session it was returned: the session passes
\* run_command's own is_active() check and the command is started by
\* `docker exec` in the session's container, where it runs until ConcExecEnd
ConcExecBegin(t) ==
    /\ pc[t] = "done"
    /\ call[t].ret # None
    /\ ExecMode(DockerSession(call[t].ret, now),
                TruthfulProbe(containers, DockerSession(call[t].ret, now)))
         = "exec"
    /\ pc' = [pc EXCEPT ![t] = "exec"]
    /\ UNCHANGED call
    /\ UNCHANGED sessVars
    /\ UNCHANGED notConcVars

\* the command started by `docker exec` ends and run_command returns
ConcExecEnd(t) ==
    /\ pc[t] = "exec"
    /\ pc' = [pc EXCEPT ![t] = "idle"]
    /\ call' = [call EXCEPT ![t] = IdleCall]
    /\ UNCHANGED sessVars
    /\ UNCHANGED notConcVars

(***************************************************************************)
(* BuildManager.run_full_build: the fixed sequence of build stages.  Each  *)
(* stage is begun, then ends with an outcome; an exception raised inside a *)
(* stage is caught at the stage boundary and counts as the stage failing.  *)
(***************************************************************************)
\* the sequence as it would be with the last two stages exchanged
StagesWordCountFirst ==
    <<"CheckStructure", "SetupOutput", "GenerateFigures", "Validate",
      "CopyStyle", "CopyReferences", "CopyFigures", "GenerateTemplate",
      "Compile", "CopyPdfToSource", "WordCountAnalysis", "ValidatePdf">>

Stages ==
    <<"CheckStructure", "SetupOutput", "GenerateFigures", "Validate",
      "CopyStyle", "CopyReferences", "CopyFigures", "GenerateTemplate",
      "Compile", "CopyPdfToSource", "ValidatePdf", "WordCountAnalysis">>

NumStages == Len(Stages)

\* how a stage can end: it returns True, returns False, raises, or (style
\* copy only) finds no style directory, logs a warning and copies nothing
StageOutcomes(s, missing) ==
    IF s = "CopyStyle" /\ missing THEN {"missing"}
    ELSE {"ok", "false", "exception"}

\* success as it would be if only a returned False counted as a failure
StageOkUnlessFalse(o) == o # "false"

\* the stage has succeeded: it returned True; an exception caught at the
\* stage boundary counts as a returned False
StageOk(o) == o = "ok"

\* criticality as it would be if only the PDF validation were tolerated
CriticalWordCount(s, missing) ==
    /\ s # "ValidatePdf"
    /\ ~(s = "CopyStyle" /\ missing)

\* a stage whose failure aborts the build
Critical(s, missing) ==
    /\ s \notin {"ValidatePdf", "WordCountAnalysis"}
    /\ ~(s = "CopyStyle" /\ missing)

\* position of the stage run after stage i; validation can be skipped
NextIndex(i, skip) ==
    IF i + 1 <= NumStages /\ Stages[i + 1] = "Validate" /\ skip
    THEN i + 2 ELSE i + 1

\* the transition rule as it would be if a failed stage never aborted
TerminalAfterKeepsGoing(i, o, skip, missing) ==
    IF NextIndex(i, skip) > NumStages
    THEN (IF ~StageOk(o) /\ Critical(Stages[i], missing) THEN "Failed"
          ELSE "Success")
    ELSE "Running"

\* state of the orchestrator after stage i has ended with outcome o
TerminalAfter(i, o, skip, missing) ==
    IF ~StageOk(o) /\ Critical(Stages[i], missing) THEN "Failed"
    ELSE IF NextIndex(i, skip) > NumStages THEN "Success"
    ELSE "Running"

\* the stages that have logged a warning, after stage s has ended with o
WarningsAfter(w, s, o, missing) ==
    IF ~StageOk(o) /\ ~Critical(s, missing) THEN w \cup {s} ELSE w

\* the boolean run_full_build returns
BuildResult(t) == IF t = "Success" THEN "true" ELSE "false"

(***************************************************************************)
(* BuildManager logging: log / _log_to_file write build_warnings.log and   *)
(* _log_bibtex_warnings writes bibtex_warnings.log from the tool's .blg.   *)
(* A file is [exists, lines]; a line of build_warnings.log is the record   *)
(* of its timestamp, level and message.                                    *)
(***************************************************************************)
\* latest reading of the wall clock
MaxClock == 2
\* longest .blg file, in lines
MaxBlgLines == 2

\* the levels log() is called with
Levels == {"INFO", "WARNING", "ERROR"}
\* the levels log() hands to _log_to_file
FileLevels == {"WARNING", "ERROR"}

\* a file that does not exist
AbsentFile == [exists |-> FALSE, lines |-> <<>>]

\* the line "<timestamp> - LEVEL: message"
LogLine(ts, level, msg) == [ts |-> ts, level |-> level, msg |-> msg]

\* _log_to_file: open in append mode (creating the file) and write one line
LogToFile(file, msg, level, ts) ==
    [exists |-> TRUE, lines |-> Append(file.lines, LogLine(ts, level, msg))]

\* log() as it would be if every level were persisted
LogEveryLevel(file, msg, level, ts) == LogToFile(file, msg, level, ts)

\* log(message, level): the file after the call
Log(file, msg, level, ts) ==
    IF level \in FileLevels THEN LogToFile(file, msg, level, ts) ELSE file

\* the level of the message the orchestrator logs when stage s ends with o
StageEndLevel(s, o, missing) ==
    IF StageOk(o) THEN "INFO"
    ELSE IF Critical(s, missing) THEN "ERROR"
    ELSE "WARNING"

\* lines of a .blg file, as sequences of tokens
BlgLineKinds ==
    { <<"Warning", "--", "empty journal in a">>,
      <<"Warning", "--", "missing year in b">>,
      <<"warning$", "--", "3">> }

RECURSIVE SeqsUpTo(_, _)
\* the sequences over S of length at most n
SeqsUpTo(S, n) ==
    IF n = 0 THEN {<<>>}
    ELSE SeqsUpTo(S, n - 1)
         \cup {Append(q, x) : q \in {r \in SeqsUpTo(S, n - 1) : Len(r) = n - 1},
                              x \in S}

\* the .blg files a run can find: none, or up to MaxBlgLines lines
BlgFiles ==
    {AbsentFile}
    \cup {[exists |-> TRUE, lines |-> q] : q \in SeqsUpTo(BlgLineKinds, MaxBlgLines)}

WarningPrefix == <<"Warning", "--">>

\* the line has the form Warning--<message>
IsWarningLine(l) ==
    /\ Len(l) > Len(WarningPrefix)
    /\ SubSeq(l, 1, Len(WarningPrefix)) = WarningPrefix

\* the line is any "<word>--<text>" diagnostic
IsDiagnosticLine(l) == Len(l) > Len(WarningPrefix) /\ l[2] = "--"

WarningMessage(l) == SubSeq(l, Len(WarningPrefix) + 1, Len(l))

RECURSIVE ExtractEveryDiagnostic(_)
\* the extraction as it would be if it matched every diagnostic line
ExtractEveryDiagnostic(lines) ==
    IF lines = <<>> THEN <<>>
    ELSE (IF IsDiagnosticLine(Head(lines))
          THEN <<WarningMessage(Head(lines))>> ELSE <<>>)
         \o ExtractEveryDiagnostic(Tail(lines))

RECURSIVE ExtractWarnings(_)
\* the messages of the Warning-- lines of a .blg file, in file order
ExtractWarnings(lines) ==
    IF lines = <<>> THEN <<>>
    ELSE (IF IsWarningLine(Head(lines))
          THEN <<WarningMessage(Head(lines))>> ELSE <<>>)
         \o ExtractWarnings(Tail(lines))

\* the numbered list "1. message", "2. message", ... of the report
WarningsReport(msgs) ==
    [i \in 1..Len(msgs) |-> [n |-> i, msg |-> msgs[i]]]

\* bibtex_warnings.log: the report's timestamp and its numbered entries
AbsentReport == [exists |-> FALSE, ts |-> 0, entries |-> <<>>]

\* a report left behind by an earlier build
OldReport ==
    [exists |-> TRUE, ts |-> 0,
     entries |-> <<[n |-> 1, msg |-> <<"Old log content">>]>>]

\* a warnings log left behind by an earlier build
OldWarningsLog ==
    [exists |-> TRUE, lines |-> <<LogLine(0, "WARNING", "earlier build")>>]

\* the step as it would be if it opened the report in append mode
LogBibtexWarningsAppending(b, old, ts) ==
    IF ~b.exists \/ ExtractWarnings(b.lines) = <<>>
    THEN [file |-> old, logged |-> FALSE]
    ELSE [file |-> [exists |-> TRUE, ts |-> ts,
                    entries |-> old.entries
                                \o WarningsReport(ExtractWarnings(b.lines))],
          logged |-> TRUE]

\* _log_bibtex_warnings: the report file after the step, and whether the
\* step has logged its INFO message
LogBibtexWarnings(b, old, ts) ==
    IF ~b.exists \/ ExtractWarnings(b.lines) = <<>>
    THEN [file |-> old, logged |-> FALSE]
    ELSE [file |-> [exists |-> TRUE, ts |-> ts,
                    entries |-> WarningsReport(ExtractWarnings(b.lines))],
          logged |-> TRUE]

\* the log() calls after one more call
Called(calls, msg, level, ts) == Append(calls, LogLine(ts, level, msg))

\* nothing recorded of a first run
NoRun == [finished |-> <<>>, terminal |-> "Running", log |-> AbsentFile]

\* the outcomes stage number n can have: any in a first run, and in a re-run
\* on unchanged inputs the outcome it had in the first run
OutcomesInRun(r, first, n, s, missing) ==
    IF r = 1 THEN StageOutcomes(s, missing)
    ELSE {first.finished[n].outcome}

BuildInit ==
    /\ cur = 0
    /\ started = <<>>
    /\ finished = <<>>
    /\ terminal = "Running"
    /\ warnings = {}
    /\ result = "none"
    /\ skipValidation \in BOOLEAN
    /\ styleMissing \in BOOLEAN
    /\ clock = 1
    /\ run = 1
    /\ logCalls = <<>>
    /\ warningsLog \in {AbsentFile, OldWarningsLog}
    /\ blg \in BlgFiles
    /\ bibtexLog \in {AbsentReport, OldReport}
    /\ bibStep = FALSE
    /\ firstRun = NoRun

\* the orchestrator while no build is requested
BuildIdle ==
    /\ BuildInit /\ ~skipValidation /\ ~styleMissing
    /\ warningsLog = AbsentFile
    /\ blg = AbsentFile
    /\ bibtexLog = AbsentReport

\* the orchestrator invokes the next stage
StageBegin ==
    /\ terminal = "Running"
    /\ Len(started) = Len(finished)
    /\ NextIndex(cur, skipValidation) <= NumStages
    /\ cur' = NextIndex(cur, skipValidation)
    /\ started' = Append(started, Stages[NextIndex(cur, skipValidation)])
    /\ UNCHANGED <<finished, terminal, warnings, result, skipValidation,
                   styleMissing>>
    /\ UNCHANGED logVars
    /\ UNCHANGED notBuildVars

\* compile_pdf runs _log_bibtex_warnings once the bibliography tool has run
LogBibtexStep ==
    /\ terminal = "Running"
    /\ Len(started) = Len(finished) + 1
    /\ Stages[cur] = "Compile"
    /\ ~bibStep
    /\ \E r \in {LogBibtexWarnings(blg, bibtexLog, clock)} :
        /\ bibtexLog' = r.file
        /\ logCalls' = IF r.logged
                       THEN Called(logCalls, "BibTeX warnings logged", "INFO",
                                   clock)
                       ELSE logCalls
        /\ warningsLog' = IF r.logged
                          THEN Log(warningsLog, "BibTeX warnings logged",
                                   "INFO", clock)
                          ELSE warningsLog
    /\ bibStep' = TRUE
    /\ UNCHANGED <<cur, started, finished, terminal, warnings, result,
                   skipValidation, styleMissing, clock, run, blg, firstRun>>
    /\ UNCHANGED notBuildVars

\* the running stage ends and the orchestrator applies the transition rule
StageEnd ==
    /\ terminal = "Running"
    /\ Len(started) = Len(finished) + 1
    /\ \E o \in OutcomesInRun(run, firstRun, Len(finished) + 1, Stages[cur],
                              styleMissing) :
        /\ finished' = Append(finished, [name |-> Stages[cur], outcome |-> o])
        /\ terminal' = TerminalAfter(cur, o, skipValidation, styleMissing)
        /\ warnings' = WarningsAfter(warnings, Stages[cur], o, styleMissing)
        /\ logCalls' = Called(logCalls, Stages[cur],
                              StageEndLevel(Stages[cur], o, styleMissing), clock)
        /\ warningsLog' = Log(warningsLog, Stages[cur],
                              StageEndLevel(Stages[cur], o, styleMissing), clock)
    /\ UNCHANGED <<cur, started, result, skipValidation, styleMissing>>
    /\ UNCHANGED <<clock, run, blg, bibtexLog, bibStep, firstRun>>
    /\ UNCHANGED notBuildVars

\* run_full_build returns to its caller
BuildReturn ==
    /\ terminal # "Running"
    /\ result = "none"
    /\ result' = BuildResult(terminal)
    /\ logCalls' = IF warningsLog.exists
                   THEN Called(logCalls, "warnings logged", "INFO", clock)
                   ELSE logCalls
    /\ warningsLog' = IF warningsLog.exists
                      THEN Log(warningsLog, "warnings logged", "INFO", clock)
                      ELSE warningsLog
    /\ firstRun' = IF run = 1
                   THEN [finished |-> finished, terminal |-> terminal,
                         log |-> warningsLog']
                   ELSE firstRun
    /\ UNCHANGED <<cur, started, finished, terminal, warnings, skipValidation,
                   styleMissing>>
    /\ UNCHANGED <<clock, run, blg, bibtexLog, bibStep>>
    /\ UNCHANGED notBuildVars

\* the pipeline is run again on the unchanged source tree, at a later or the
\* same reading of the clock
Rerun ==
    /\ result # "none"
    /\ run = 1
    /\ run' = 2
    /\ \E t \in clock..MaxClock : clock' = t
    /\ cur' = 0
    /\ started' = <<>>
    /\ finished' = <<>>
    /\ terminal' = "Running"
    /\ warnings' = {}
    /\ result' = "none"
    /\ logCalls' = <<>>
    /\ bibStep' = FALSE
    /\ UNCHANGED <<skipValidation, styleMissing, warningsLog, blg, bibtexLog,
                   firstRun>>
    /\ UNCHANGED notBuildVars

(***************************************************************************)
(* FigureGenerator: rendering a batch of figure sources.  File names are   *)
(* sequences of characters so that the name matching of the output scan    *)
(* is computed as the code computes it.                                    *)
(***************************************************************************)
StemFig1 == <<"F", "i", "g", "1">>

StemPlot == <<"P", "l", "o", "t">>

\* a name a script may give its output that matches no pattern
StemOut == <<"o", "u", "t">>

\* the figure sources a figures directory may hold: [stem, kind], the kind
\* being what the glob patterns *.mmd, *.py and *.R tell apart
Sources ==
    {[stem |-> StemFig1, kind |-> "mermaid"],
     [stem |-> StemFig1, kind |-> "python"],
     [stem |-> StemPlot, kind |-> "r"]}

\* the order in which work items are built: mermaid, python, then R files
ItemOrder(f) == CASE f.kind = "mermaid" -> 1 [] f.kind = "python" -> 2 [] OTHER -> 3

\* what the tools of a source do, fixed for a run:
\*   "missing"    the tool (mmdc, Rscript) is not installed
\*   "fail"       the tool exits non-zero
\*   "raise"      starting the tool raises (OSError, TimeoutExpired)
\*   "svg_only"   mmdc succeeds, CairoSVG is not usable
\*   "png_fails"  mmdc succeeds, the PNG conversion fails, the PDF one works
\*   "ok"         everything succeeds; a script writes <stem>.png
\*   "ok_other"   the script succeeds and writes out.png
\*   "hang"       the tool, run in a container, never exits
ToolBehaviours(kind) ==
    CASE kind = "mermaid" -> {"missing", "fail", "raise", "svg_only",
                              "png_fails", "ok", "hang"}
      [] kind = "python"  -> {"fail", "raise", "ok", "ok_other", "hang"}
      [] OTHER            -> {"missing", "fail", "raise", "ok", "hang"}

\* the timeout that run_mermaid_generation, run_python_script and run_r_script
\* hand to run_command: none, so subprocess.run gets run_command's default
\* timeout=None
RunCommandTimeout == None

\* subprocess.run on a command that never exits: with a timeout it raises
\* TimeoutExpired, without one it never returns
HangResult(tmo) ==
    IF tmo = None
    THEN [next |-> "hung", writes |-> {}, log |-> {}, reported |-> {},
          raised |-> FALSE]
    ELSE [next |-> "done", writes |-> {}, log |-> {}, reported |-> {},
          raised |-> TRUE]

\* values of max_workers a caller may pass; 4 is the default, 0 and 9 lie
\* outside the range 1..8 that main() clamps its command-line option to
WorkerChoices == {0, 1, 2, 4, 9}

\* str.lower() on the characters that occur
Lower(c) == CASE c = "F" -> "f" [] c = "P" -> "p" [] OTHER -> c

LowerName(n) == [i \in 1..Len(n) |-> Lower(n[i])]

\* str.startswith
StartsWith(n, p) == Len(p) <= Len(n) /\ SubSeq(n, 1, Len(p)) = p

\* the `in` operator on strings
Contains(n, sub) ==
    \E i \in 0..(Len(n) - Len(sub)) : SubSeq(n, i + 1, i + Len(sub)) = sub

\* the test that makes a scanned file a "potential file" of a script
MatchesScript(base, stem) ==
    \/ Contains(LowerName(stem), LowerName(base))
    \/ StartsWith(LowerName(stem), <<"f", "i", "g", "u", "r", "e">>)
    \/ StartsWith(LowerName(stem), <<"f", "i", "g">>)

\* an output path: figure_dir is output_dir/<dir>, the file is <stem>.<ext>
OutFile(dir, stem, ext) == [dir |-> dir, stem |-> stem, ext |-> ext]

\* the paths present on disk; disk also remembers which source wrote them
PathsOn(d) == {OutFile(e.dir, e.stem, e.ext) : e \in d}

\* the disk after source f has written the paths ws
Written(d, f, ws) ==
    d \cup {[dir |-> w.dir, stem |-> w.stem, ext |-> w.ext, writer |-> f] : w \in ws}

\* what one step of a render task does: the step that follows ("done" when
\* the generator returns), the paths written, the levels of the messages
\* printed, the paths announced as generated, and whether the step raised
StepResult(next, writes, log, announced, raised) ==
    [next |-> next, writes |-> writes, log |-> log, reported |-> announced,
     raised |-> raised]

\* the tool check as it would be if mmdc were taken to be installed
CheckMermaidCliAssumed(t) == TRUE

\* platform.check_command_exists("mmdc")
CheckMermaidCli(t) == t # "missing"

\* platform.check_command_exists("Rscript")
CheckRscript(t) == t # "missing"

\* FigureGenerator._check_cairosvg_availability
CheckCairosvgAvailability(t) == t # "svg_only"

\* step 2 as it would be if CairoSVG were taken to be usable under both engines
CairosvgAssumed(eng, t) == TRUE

\* generate_mermaid_figure, lines 287-293: cairosvg_available
CairosvgAvailable(eng, t) ==
    IF eng = "docker" THEN TRUE ELSE CheckCairosvgAvailability(t)

\* generate_mermaid_figure, step 1: the intermediate SVG
MermaidStep1(f, t, eng) ==
    IF eng = "local" /\ ~CheckMermaidCli(t)
    THEN StepResult("done", {}, {"warning"}, {}, FALSE)
    ELSE IF t = "hang"
    THEN HangResult(RunCommandTimeout)
    ELSE IF t = "raise"
    THEN StepResult("done", {}, {}, {}, TRUE)
    ELSE IF t \in {"fail", "missing"}
    THEN StepResult("done", {}, {"error"}, {}, FALSE)
    ELSE StepResult("step2", {OutFile(f.stem, f.stem, "svg")}, {}, {}, FALSE)

\* the target formats whose conversion from the SVG succeeds
Converted(t) ==
    CASE t = "ok"        -> {"png", "pdf"}
      [] t = "png_fails" -> {"pdf"}
      [] OTHER           -> {}

\* generate_mermaid_figure, step 2: PNG and PDF from the SVG
MermaidStep2(f, t, eng) ==
    IF ~CairosvgAvailable(eng, t)
    THEN StepResult("done", {}, {"warning"},
                    {OutFile(f.stem, f.stem, "svg")}, FALSE)
    ELSE StepResult("done",
                    {OutFile(f.stem, f.stem, x) : x \in Converted(t)},
                    IF Converted(t) = {"png", "pdf"} THEN {} ELSE {"error"},
                    {OutFile(f.stem, f.stem, "svg")}
                        \cup {OutFile(f.stem, f.stem, x) : x \in Converted(t)},
                    FALSE)

\* formats_to_generate
FormatsToGenerate == <<"png", "pdf">>

\* the conversion loop as it would be if it stopped at the first format
\* whose conversion fails
ConversionsAttemptedUntilFailure(t, eng) ==
    IF ~CairosvgAvailable(eng, t) THEN {}
    ELSE {FormatsToGenerate[i] :
            i \in {j \in 1..Len(FormatsToGenerate) :
                     \A h \in 1..(j - 1) : FormatsToGenerate[h] \in Converted(t)}}

\* generate_mermaid_figure, step 2: the formats whose conversion is started.
\* The loop goes over formats_to_generate; a non-zero exit ends the
\* iteration with `continue`, an exception is caught inside the iteration
ConversionsAttempted(t, eng) ==
    IF ~CairosvgAvailable(eng, t) THEN {}
    ELSE {FormatsToGenerate[i] : i \in 1..Len(FormatsToGenerate)}

\* the external command the first step of a render task starts: none when
\* the local tool check fails, else mmdc, python or Rscript
FirstCommand(f, t, eng) ==
    CASE f.kind = "mermaid" ->
             IF eng = "local" /\ ~CheckMermaidCli(t) THEN {} ELSE {"mmdc"}
      [] f.kind = "r" ->
             IF eng = "local" /\ ~CheckRscript(t) THEN {} ELSE {"Rscript"}
      [] OTHER -> {"python"}

\* generate_python_figure / generate_r_figure up to the end of the script
ScriptExec(f, t, eng) ==
    IF f.kind = "r" /\ eng = "local" /\ ~CheckRscript(t)
    THEN StepResult("done", {}, {"warning"}, {}, FALSE)
    ELSE IF t = "hang"
    THEN HangResult(RunCommandTimeout)
    ELSE IF t = "raise"
    THEN StepResult("done", {}, {}, {}, TRUE)
    ELSE IF t \in {"fail", "missing"}
    THEN StepResult("done", {}, {"error"}, {}, FALSE)
    ELSE StepResult("scan",
                    {OutFile(f.stem, IF t = "ok_other" THEN StemOut ELSE f.stem,
                             "png")},
                    {}, {}, FALSE)

\* the scan of the figure subdirectory after the script: potential_files
PotentialFiles(f, d) ==
    {p \in PathsOn(d) :
        /\ p.dir = f.stem
        /\ p.ext \in {"png", "pdf", "svg", "eps"}
        /\ MatchesScript(f.stem, p.stem)}

\* generate_python_figure / generate_r_figure after the script has exited 0
ScriptScan(f, d) ==
    StepResult("done", {},
               IF PotentialFiles(f, d) = {} THEN {"warning"} ELSE {},
               PotentialFiles(f, d), FALSE)

\* the first step of the render task of f
FirstStep(f, t, eng) ==
    IF f.kind = "mermaid" THEN MermaidStep1(f, t, eng) ELSE ScriptExec(f, t, eng)

\* the second step of the render task of f on disk d
SecondStep(f, t, eng, d) ==
    IF f.kind = "mermaid" THEN MermaidStep2(f, t, eng) ELSE ScriptScan(f, d)

\* the generators as they would be if generate_r_figure had no try/except
GenerateCatchesNotR(kind) == kind # "r"

\* the body of every generate_*_figure is inside `try ... except Exception`
GenerateCatches(kind) == TRUE

\* the message levels a step leaves, the handler's error message included
StepLog(f, r) ==
    IF r.raised /\ GenerateCatches(f.kind) THEN r.log \cup {"error"} ELSE r.log

\* how the call of generate_*_figure ends with step result r
GenStatus(f, r) ==
    IF r.raised /\ ~GenerateCatches(f.kind) THEN "raised" ELSE "returned"

\* what process_figure or the sequential loop makes of the generator's end
TaskOutcome(status) == IF status = "raised" THEN "failed" ELSE "completed"

\* the file name suffix of a source, which the glob patterns go by
Suffix(f) ==
    CASE f.kind = "mermaid" -> "mmd" [] f.kind = "python" -> "py" [] OTHER -> "R"

\* the kind of render task the files of a glob pattern are handed to:
\* *.mmd to generate_mermaid_figure, *.py to generate_python_figure, *.R to
\* generate_r_figure
TaskType(suffix) ==
    CASE suffix = "mmd" -> "mermaid" [] suffix = "py" -> "python" [] OTHER -> "r"

\* the work items as they would be if r_only were not looked at
WorkItemsOfEveryKind(fs, ronly) == fs

\* the files generate_all_figures hands to the renderers
WorkItems(fs, ronly) == IF ronly THEN {f \in fs : f.kind = "r"} ELSE fs

\* lines 106-112: is the batch given to the thread pool
UsesPool(fs, ronly, par) == par /\ Cardinality(WorkItems(fs, ronly)) > 1

\* how many render tasks can be in progress at once
Limit(fs, ronly, par, mw) == IF UsesPool(fs, ronly, par) THEN mw ELSE 1

\* a whole render task run without interruption on disk d
RunTask(f, t, eng, d) ==
    LET r1 == FirstStep(f, t, eng)
        d1 == Written(d, f, r1.writes)
        r2 == SecondStep(f, t, eng, d1)
    IN  IF r1.next \in {"done", "hung"}
        THEN [disk |-> d1, reported |-> r1.reported]
        ELSE [disk |-> Written(d1, f, r2.writes), reported |-> r2.reported]

\* the work items in the order of _generate_figures_sequential
RECURSIVE InOrder(_)
InOrder(fs) ==
    IF fs = {} THEN <<>>
    ELSE LET f == CHOOSE g \in fs : \A h \in fs : ItemOrder(g) <= ItemOrder(h)
         IN  <<f>> \o InOrder(fs \ {f})

\* _generate_figures_sequential: the generated files announced per source
RECURSIVE SequentialRun(_, _, _, _, _)
SequentialRun(order, tl, eng, d, rep) ==
    IF order = <<>> THEN rep
    ELSE LET f == Head(order)
             r == RunTask(f, tl[f], eng, d)
         IN  SequentialRun(Tail(order), tl, eng, r.disk,
                           [rep EXCEPT ![f] = r.reported])

\* FigureGenerator(...) and the arguments of generate_all_figures
FigInit ==
    /\ files \in SUBSET Sources
    /\ tool \in [Sources -> {"none", "missing", "fail", "raise", "svg_only",
                             "png_fails", "ok", "ok_other", "hang"}]
    /\ \A f \in Sources :
          IF f \in files THEN tool[f] \in ToolBehaviours(f.kind)
          ELSE tool[f] = "none"
    /\ engine \in {"local", "docker"}
    /\ \A f \in Sources : tool[f] = "hang" => engine = "docker"
    /\ rOnly \in BOOLEAN
    /\ parallel \in BOOLEAN
    /\ maxWorkers \in WorkerChoices
    /\ ~parallel => maxWorkers = 4
    /\ fpc = [f \in Sources |-> "queued"]
    /\ disk = {}
    /\ reported = [f \in Sources |-> {}]
    /\ flog = [f \in Sources |-> {}]
    /\ genStatus = [f \in Sources |-> "none"]
    /\ outcome = [f \in Sources |-> "none"]
    /\ invoked = [f \in Sources |-> {}]
    /\ dispatched = [f \in Sources |-> <<>>]
    /\ batch = "running"

\* the generator while no batch is rendered
FigIdle ==
    /\ FigInit
    /\ files = {}
    /\ engine = "local"
    /\ ~rOnly
    /\ ~parallel

\* the render tasks in progress
Rendering == {f \in Sources : fpc[f] \in {"step2", "scan", "hung"}}

\* the effect of a step with result r of the render task of f
ApplyStep(f, r) ==
    /\ disk' = Written(disk, f, r.writes)
    /\ reported' = [reported EXCEPT ![f] = r.reported]
    /\ flog' = [flog EXCEPT ![f] = flog[f] \cup StepLog(f, r)]
    /\ fpc' = [fpc EXCEPT ![f] = r.next]
    /\ genStatus' = [genStatus EXCEPT
                       ![f] = IF r.next = "done" THEN GenStatus(f, r)
                              ELSE "none"]
    /\ outcome' = [outcome EXCEPT
                     ![f] = IF r.next = "done" THEN TaskOutcome(GenStatus(f, r))
                            ELSE "none"]

\* ThreadPoolExecutor(max_workers) raises ValueError for max_workers <= 0,
\* and generate_all_figures re-raises it
PoolRejected ==
    /\ batch = "running"
    /\ UsesPool(files, rOnly, parallel)
    /\ maxWorkers <= 0
    /\ batch' = "raised"
    /\ UNCHANGED <<files, tool, engine, rOnly, parallel, maxWorkers, fpc, disk,
                   reported, flog, genStatus, outcome, invoked, dispatched>>
    /\ UNCHANGED notFigVars

\* a worker (or the sequential loop) takes the next work item and runs its
\* generator up to the end of the first external command
RenderBegin(f) ==
    /\ batch = "running"
    /\ f \in WorkItems(files, rOnly)
    /\ fpc[f] = "queued"
    /\ \A g \in WorkItems(files, rOnly) :
          ItemOrder(g) < ItemOrder(f) => fpc[g] # "queued"
    /\ Cardinality(Rendering) < Limit(files, rOnly, parallel, maxWorkers)
    /\ ApplyStep(f, FirstStep(f, tool[f], engine))
    /\ invoked' = [invoked EXCEPT ![f] = FirstCommand(f, tool[f], engine)]
    /\ dispatched' = [dispatched EXCEPT
                        ![f] = Append(dispatched[f], TaskType(Suffix(f)))]
    /\ UNCHANGED <<files, tool, engine, rOnly, parallel, maxWorkers, batch>>
    /\ UNCHANGED notFigVars

\* generate_mermaid_figure goes on with step 2
RenderConvert(f) ==
    /\ fpc[f] = "step2"
    /\ ApplyStep(f, MermaidStep2(f, tool[f], engine))
    /\ invoked' = [invoked EXCEPT
                     ![f] = invoked[f]
                              \cup ConversionsAttempted(tool[f], engine)]
    /\ UNCHANGED <<files, tool, engine, rOnly, parallel, maxWorkers, batch,
                   dispatched>>
    /\ UNCHANGED notFigVars

\* generate_python_figure / generate_r_figure goes on with the output scan
RenderScan(f) ==
    /\ fpc[f] = "scan"
    /\ ApplyStep(f, ScriptScan(f, disk))
    /\ UNCHANGED <<files, tool, engine, rOnly, parallel, maxWorkers, batch,
                   invoked, dispatched>>
    /\ UNCHANGED notFigVars

\* every work item has been rendered: generate_all_figures returns
BatchDone ==
    /\ batch = "running"
    /\ ~(UsesPool(files, rOnly, parallel) /\ maxWorkers <= 0)
    /\ \A f \in WorkItems(files, rOnly) : fpc[f] = "done"
    /\ batch' = "done"
    /\ UNCHANGED <<files, tool, engine, rOnly, parallel, maxWorkers, fpc, disk,
                   reported, flog, genStatus, outcome, invoked, dispatched>>
    /\ UNCHANGED notFigVars

(***************************************************************************)
(* _generate_figures_parallel: the console output of the workers           *)
(***************************************************************************)
\* most lines a generator prints after its first one
MaxGenLines == 2

\* the print function a line is written with: process_figure writes its
\* lines with safe_print, the generators generate_mermaid_figure,
\* generate_python_figure and generate_r_figure write theirs with the builtin
PrintFunction(site) ==
    IF site = "process_figure" THEN "safe_print" ELSE "print"

\* the batch before the pool starts: every work item is pending; each
\* generator prints its first line (lines 247, 452, 578 or 587) and up to
\* MaxGenLines more
PrintInit ==
    /\ printers \in {S \in SUBSET Sources : Cardinality(S) > 1}
    /\ printLock = {}
    /\ wpc = [f \in Sources |-> IF f \in printers THEN "processing" ELSE "done"]
    /\ genLines \in [Sources -> 0..MaxGenLines]
    /\ \A f \in Sources : f \notin printers => genLines[f] = 0

\* no batch is printed
PrintIdle ==
    /\ printers = {}
    /\ printLock = {}
    /\ wpc = [f \in Sources |-> "done"]
    /\ genLines = [f \in Sources |-> 0]

\* the work items that are inside a write to the console
Writing == {f \in Sources : wpc[f] \in {"locked", "locked_end", "writing"}}

\* where a worker is about to print: "processing" and "completed" in
\* process_figure, "generator" inside generate_*_figure
PrintSite(p) == IF p = "generator" THEN "generator" ELSE "process_figure"

\* a worker starts to print the line it has reached: safe_print enters
\* `with print_lock` first and blocks while another worker holds the lock,
\* the builtin print writes at once
PrintBegin(f) ==
    /\ wpc[f] \in {"processing", "generator", "completed"}
    /\ IF PrintFunction(PrintSite(wpc[f])) = "safe_print"
       THEN /\ printLock = {}
            /\ printLock' = {f}
       ELSE UNCHANGED printLock
    /\ wpc' = [wpc EXCEPT
                 ![f] = CASE wpc[f] = "processing" -> "locked"
                          [] wpc[f] = "completed"  -> "locked_end"
                          [] OTHER                 -> "writing"]
    /\ UNCHANGED <<printers, genLines>>
    /\ UNCHANGED notPrintVars

\* the write returns: safe_print leaves `with print_lock`; the worker goes
\* on into the generator, to the generator's next line, to the closing line
\* of process_figure, or ends
PrintEnd(f) ==
    /\ wpc[f] \in {"locked", "locked_end", "writing"}
    /\ printLock' = printLock \ {f}
    /\ wpc' = [wpc EXCEPT
                 ![f] = CASE wpc[f] = "locked"     -> "generator"
                          [] wpc[f] = "locked_end" -> "done"
                          [] genLines[f] > 0       -> "generator"
                          [] OTHER                 -> "completed"]
    /\ genLines' = [genLines EXCEPT
                      ![f] = IF wpc[f] = "writing" /\ genLines[f] > 0
                             THEN genLines[f] - 1 ELSE genLines[f]]
    /\ UNCHANGED printers
    /\ UNCHANGED notPrintVars

(***************************************************************************)
(* DockerManager.run_latex_compilation                                     *)
(***************************************************************************)
\* largest passes argument
MaxPasses == 3

\* session_key of run_latex_compilation
LatexKey == "latex_compilation"

\* how one run_command call of the loop can end: the command exits with a
\* code, or never exits (no timeout is passed)
CommandOutcomes == {"zero", "nonzero", "hang"}

\* how run_command runs the command: by exec in the session it obtained for
\* the key, or in a throwaway container
CommandModes == {"exec", "throwaway"}

\* the CompletedProcess of one run_command call
Completed(cmd, key, md, o) ==
    [tool |-> cmd, session_key |-> key, mode |-> md, returncode |-> o]

\* the bibliography test as it would be if it were made after every pass
BibtexDueEveryPass(i, bib) == bib

\* bibtex is run after pass i
BibtexDue(i, bib) == i = 0 /\ bib

\* where the loop is after pass i and what follows it
AfterPass(i, p) ==
    [passIndex |-> i + 1,
     latexPc |-> IF i + 1 < p THEN "pdflatex" ELSE "returned"]

LatexInit ==
    /\ passes \in 0..MaxPasses
    /\ bibFile \in BOOLEAN
    /\ passIndex = 0
    /\ latexPc = "idle"
    /\ results = <<>>

\* no compilation is requested
LatexIdle == LatexInit /\ passes = 0 /\ ~bibFile

\* run_latex_compilation is called: range(passes) is entered
LatexCall ==
    /\ latexPc = "idle"
    /\ latexPc' = IF passes > 0 THEN "pdflatex" ELSE "returned"
    /\ UNCHANGED <<passes, bibFile, passIndex, results>>
    /\ UNCHANGED notLatexVars

\* one iteration: run_command(pdflatex) and results.append
LatexPass ==
    /\ latexPc = "pdflatex"
    /\ \E o \in CommandOutcomes, md \in CommandModes :
        IF o = "hang"
        THEN /\ latexPc' = "blocked"
             /\ UNCHANGED <<passIndex, results>>
        ELSE /\ results' = Append(results,
                                  Completed("pdflatex", LatexKey, md, o))
             /\ IF BibtexDue(passIndex, bibFile)
                THEN /\ latexPc' = "bibtex"
                     /\ UNCHANGED passIndex
                ELSE /\ latexPc' = AfterPass(passIndex, passes).latexPc
                     /\ passIndex' = AfterPass(passIndex, passes).passIndex
    /\ UNCHANGED <<passes, bibFile>>
    /\ UNCHANGED notLatexVars

\* run_command(bibtex) and results.append, then the next iteration
LatexBibtex ==
    /\ latexPc = "bibtex"
    /\ \E o \in CommandOutcomes, md \in CommandModes :
        IF o = "hang"
        THEN /\ latexPc' = "blocked"
             /\ UNCHANGED <<passIndex, results>>
        ELSE /\ results' = Append(results,
                                  Completed("bibtex", LatexKey, md, o))
             /\ latexPc' = AfterPass(passIndex, passes).latexPc
             /\ passIndex' = AfterPass(passIndex, passes).passIndex
    /\ UNCHANGED <<passes, bibFile>>
    /\ UNCHANGED notLatexVars

Init == SessInit /\ ConcInit /\ BuildIdle /\ FigIdle /\ LatexIdle /\ PrintIdle

Next ==
    \/ \E k \in Keys : GetOrCreate(k)
    \/ \E k \in Keys : GetOrCreateDisabled(k)
    \/ \E k \in Keys : RunCommand(k)
    \/ RunCommandAdHoc
    \/ CleanupExpired
    \/ CleanupAll
    \/ Tick
    \/ ContainerExits

\* the session manager under any sequence of getOrCreate, run_command,
\* cleanupExpired and cleanupAll calls
Spec == Init /\ [][Next]_vars

\* the same, with the engine reconfigured by enable_aggressive_cleanup
\* one process from start to exit: manager calls until the process ends
Running == last.op # "exit"

NextRun ==
    \/ \E k \in Keys : Running /\ GetOrCreate(k)
    \/ \E k \in Keys : Running /\ GetOrCreateDisabled(k)
    \/ \E k \in Keys : Running /\ RunCommand(k)
    \/ Running /\ RunCommandAdHoc
    \/ Running /\ CleanupExpired
    \/ Running /\ CleanupAll
    \/ Running /\ Tick
    \/ Running /\ ContainerExits
    \/ ProcessExit

\* the process does end
SpecRun == Init /\ [][NextRun]_vars /\ WF_vars(ProcessExit)

\* the manager calls with reconfiguration by enable_aggressive_cleanup
\* between them; no session ages while they are made
NextConfig ==
    \/ \E k \in Keys : GetOrCreate(k)
    \/ \E k \in Keys : GetOrCreateDisabled(k)
    \/ \E k \in Keys : RunCommand(k)
    \/ RunCommandAdHoc
    \/ CleanupExpired
    \/ CleanupAll
    \/ ContainerExits
    \/ EnableAggressiveCleanup

SpecConfig == Init /\ [][NextConfig]_vars

\* the worker threads of a parallel run sharing the manager
NextConc ==
    \/ \E t \in Threads, k \in Keys : ConcBegin(t, k)
    \/ \E t \in Threads : ConcIter(t)
    \/ \E t \in Threads : ConcDelete(t)
    \/ \E t \in Threads : ConcCheck(t)
    \/ \E t \in Threads : ConcProbe(t)
    \/ \E t \in Threads : ConcLaunch(t)
    \/ \E t \in Threads : ConcReturn(t)
    \/ ContainerExits

SpecConc == Init /\ [][NextConc]_vars

\* the worker threads running their commands in the sessions they obtained,
\* while time passes; no container ends on its own
NextExec ==
    \/ \E t \in Threads, k \in Keys : ConcBegin(t, k)
    \/ \E t \in Threads : ConcIter(t)
    \/ \E t \in Threads : ConcDelete(t)
    \/ \E t \in Threads : ConcCheck(t)
    \/ \E t \in Threads : ConcProbe(t)
    \/ \E t \in Threads : ConcLaunch(t)
    \/ \E t \in Threads : ConcReturn(t)
    \/ \E t \in Threads : ConcExecBegin(t)
    \/ \E t \in Threads : ConcExecEnd(t)
    \/ Tick

InitExec ==
    SessInit /\ reuse /\ ConcInit /\ BuildIdle /\ FigIdle /\ LatexIdle /\ PrintIdle

SpecExec == InitExec /\ [][NextExec]_vars

\* one run of the build pipeline
InitBuild ==
    SessInit /\ reuse /\ ConcInit /\ BuildInit /\ FigIdle /\ LatexIdle /\ PrintIdle

NextBuild ==
    \/ StageBegin
    \/ StageEnd
    \/ LogBibtexStep
    \/ BuildReturn

SpecBuild == InitBuild /\ [][NextBuild]_vars

\* the pipeline run twice on an unchanged source tree
NextRerun ==
    \/ StageBegin
    \/ StageEnd
    \/ LogBibtexStep
    \/ BuildReturn
    \/ Rerun

InitRerun == InitBuild /\ blg = AbsentFile /\ bibtexLog = AbsentReport

SpecRerun == InitRerun /\ [][NextRerun]_vars

\* one call of generate_all_figures
InitFig ==
    SessInit /\ reuse /\ ConcInit /\ BuildIdle /\ FigInit /\ LatexIdle /\ PrintIdle

\* one call of run_latex_compilation
InitLatex ==
    SessInit /\ reuse /\ ConcInit /\ BuildIdle /\ FigIdle /\ LatexInit /\ PrintIdle

NextLatex ==
    \/ LatexCall
    \/ LatexPass
    \/ LatexBibtex

SpecLatex == InitLatex /\ [][NextLatex]_vars

InitPrint ==
    SessInit /\ reuse /\ ConcInit /\ BuildIdle /\ FigIdle /\ LatexIdle /\ PrintInit

NextPrint ==
    \/ \E f \in Sources : PrintBegin(f)
    \/ \E f \in Sources : PrintEnd(f)

\* the console output of a parallel batch
SpecPrint == InitPrint /\ [][NextPrint]_vars

NextFig ==
    \/ PoolRejected
    \/ \E f \in Sources : RenderBegin(f)
    \/ \E f \in Sources : RenderConvert(f)
    \/ \E f \in Sources : RenderScan(f)
    \/ BatchDone

SpecFig == InitFig /\ [][NextFig]_vars

\* the same call with every thread that can take a step taking it
SpecFigFair == InitFig /\ [][NextFig]_vars /\ WF_vars(NextFig)

(***************************************************************************)
(* Claims about the session manager, checked under Spec                    *)
(***************************************************************************)
\* the calls that go through _get_or_create_session with reuse enabled
SessionCall ==
    /\ last.op \in {"getOrCreate", "runCommand"}
    /\ last.key \in Keys
    /\ reuse

\* session containers launched for key k that the backend still runs
RunningFor(k) ==
    {c \in ContainerIds : containers[c].state = "running" /\ containers[c].key = k}

\* C1: in every reachable state, for every session key whose tracked session
\* has a running container, no other session container launched for the same
\* key is still running: at most one active session per key.
C1_OneActiveSessionPerKey ==
    \A k \in Keys :
        (sessions[k] # NoSession /\ sessions[k].container_id \in RunningFor(k))
            => RunningFor(k) = {sessions[k].container_id}

\* C2: a getOrCreate (alone or inside run_command) made with reuse enabled
\* while the session tracked for its key is within the timeout window and
\* passes every liveness probe of the call returns that same session, keeps
\* it in the table and launches no container.
C2_SessionReuse ==
    [][ (SessionCall' /\ last'.found = "live")
            => /\ last'.ret = sessions[last'.key].container_id
               /\ last'.ret # None
               /\ sessions'[last'.key].container_id = last'.ret
               /\ last'.launched = None
               /\ nextId' = nextId
               /\ \A c \in ContainerIds :
                     containers'[c].state = "running"
                         => containers[c].state = "running" ]_vars

\* C2 witness: a call has found a live session and returned it
C2_Witness ==
    /\ SessionCall
    /\ last.found = "live"
    /\ last.ret = last.prev
    /\ last.ret # None
    /\ now - sessions[last.key].created_at = SessionTimeoutDefault

\* C3 as stated: a getOrCreate that finds the tracked session of its key
\* failing the liveness check removes the entry and returns a freshly
\* launched session with another identifier.
C3_StaleReplacedAlways ==
    (SessionCall /\ last.found = "stale")
        => /\ last.ret # None
           /\ last.ret # last.prev
           /\ last.ret = last.launched
           /\ sessions[last.key].container_id = last.ret

\* C3 amended: a getOrCreate that finds the tracked session of its key
\* failing the liveness check removes the stale entry; when the launch of
\* the replacement succeeds it returns the freshly launched session, whose
\* identifier differs from the stale one, and when the launch fails it
\* returns no session and leaves no entry; no call ever returns a session
\* that was found stale.
C3_StaleReplaced ==
    /\ (SessionCall /\ last.found = "stale")
          => /\ sessions[last.key].container_id # last.prev
             /\ last.launch # "none"
             /\ last.launch = "ok"
                   => /\ last.ret # None
                      /\ last.ret # last.prev
                      /\ last.ret = last.launched
                      /\ sessions[last.key].container_id = last.ret
             /\ last.launch # "ok"
                   => /\ last.ret = None
                      /\ sessions[last.key] = NoSession
    /\ last.ret \notin stale
    /\ \A k \in Keys : sessions[k].container_id \notin stale

\* C3 witness: a stale session has been replaced by a fresh one
C3_Witness ==
    /\ SessionCall
    /\ last.found = "stale"
    /\ last.prev \in stale
    /\ last.ret # None
    /\ last.ret # last.prev


(***************************************************************************)
(* Claims about concurrent callers, checked under SpecConc                 *)
(***************************************************************************)
\* threads t and u have both returned from calls for one key that overlapped
\* in time and both began with no live session for the key, and every
\* container these calls launched still runs
ConcurrentPair(t, u) ==
    /\ t # u
    /\ reuse
    /\ pc[t] = "done" /\ pc[u] = "done"
    /\ call[t].key = call[u].key
    /\ call[t].overlap /\ call[u].overlap
    /\ call[t].nolive /\ call[u].nolive
    /\ \A v \in {t, u} :
          call[v].launched # None => containers[call[v].launched].state = "running"

\* C4: when two threads call getOrCreate concurrently for the same key with
\* no live session for it, exactly one container is created and both callers
\* get the same session
C4_ConcurrentCallersShareOneSession ==
    \A t, u \in Threads :
        ConcurrentPair(t, u)
            => /\ call[t].ret = call[u].ret
               /\ call[t].ret # None
               /\ (call[t].launched = None) # (call[u].launched = None)


(***************************************************************************)
(* Claims about the build pipeline, checked under SpecBuild                *)
(***************************************************************************)
\* the stage order the specification document gives
DocumentedOrder ==
    <<"CheckStructure", "SetupOutput", "GenerateFigures", "Validate",
      "CopyStyle", "CopyReferences", "CopyFigures", "GenerateTemplate",
      "Compile", "CopyPdfToSource", "ValidatePdf", "WordCountAnalysis">>

\* position of a stage in the documented order
DocRank(s) == CHOOSE i \in 1..Len(DocumentedOrder) : DocumentedOrder[i] = s

\* the stages the specification document calls non-critical
Tolerated(s) ==
    \/ s \in {"ValidatePdf", "WordCountAnalysis"}
    \/ s = "CopyStyle" /\ styleMissing

\* the i-th stage that ended has failed (returned false, raised, or skipped
\* its work for want of the style directory)
FailedAt(i) == finished[i].outcome # "ok"

\* C5: once a critical stage has returned false the orchestrator is Failed,
\* no later stage has been invoked, and the build result is not true
C5_CriticalFailureAborts ==
    \A i \in 1..Len(finished) :
        (FailedAt(i) /\ ~Tolerated(finished[i].name))
            => /\ terminal = "Failed"
               /\ i = Len(finished)
               /\ Len(started) = i
               /\ started[i] = finished[i].name
               /\ result \in {"none", "false"}

C5_Witness ==
    /\ terminal = "Failed"
    /\ result = "false"
    /\ Len(finished) > 0
    /\ finished[Len(finished)] = [name |-> "CopyReferences", outcome |-> "false"]

\* C6: stages are invoked one at a time in the documented order; ValidatePdf
\* has ended before WordCountAnalysis begins and GenerateFigures before
\* Compile
C6_StageOrder ==
    /\ \A i, j \in 1..Len(started) : i < j => DocRank(started[i]) < DocRank(started[j])
    /\ Len(started) - Len(finished) \in {0, 1}
    /\ \A i \in 1..Len(finished) : finished[i].name = started[i]
    /\ \A i \in 1..Len(started) :
          /\ started[i] = "WordCountAnalysis"
                => \E j \in 1..(i - 1) : finished[j].name = "ValidatePdf"
          /\ started[i] = "Compile"
                => \E j \in 1..(i - 1) : finished[j].name = "GenerateFigures"

C6_Witness ==
    /\ Len(started) = Len(DocumentedOrder)
    /\ started[Len(started)] = "WordCountAnalysis"
    /\ Len(finished) = Len(started) - 1

\* C7: a failure of a non-critical stage logs a warning and leaves the
\* orchestrator running (or successful after the last stage); the terminal
\* state is Failed exactly when some critical stage has failed
C7_ToleratedFailures ==
    /\ terminal = "Failed"
          <=> \E i \in 1..Len(finished) :
                  FailedAt(i) /\ ~Tolerated(finished[i].name)
    /\ \A i \in 1..Len(finished) :
          (FailedAt(i) /\ Tolerated(finished[i].name))
              => /\ finished[i].name \in warnings
                 /\ i = Len(finished)
                       => terminal = (IF DocRank(finished[i].name) = Len(DocumentedOrder)
                                      THEN "Success" ELSE "Running")
                 /\ (i = Len(finished) /\ Len(started) = i /\ terminal = "Running")
                       => ENABLED StageBegin

C7_Witness ==
    /\ terminal = "Success"
    /\ result = "true"
    /\ warnings = {"CopyStyle", "ValidatePdf", "WordCountAnalysis"}


(***************************************************************************)
(* Claims about figure rendering, checked under SpecFig                    *)
(***************************************************************************)
\* the render task of f has ended in a failure: its tool was missing, exited
\* non-zero or raised, or a conversion failed
TaskFailed(f) ==
    /\ fpc[f] = "done"
    /\ tool[f] \in {"missing", "fail", "raise", "png_fails"} \/ "error" \in flog[f]

\* the paths on disk that the render task of f wrote
WrittenBy(f) == PathsOn({e \in disk : e.writer = f})

\* C8: a failing render task raises neither out of its generate_*_figure
\* call nor out of generate_all_figures, and the other tasks of the batch
\* still run to completion, in sequential and in parallel mode
C8_FailureContainment ==
    /\ \A f \in Sources : genStatus[f] # "raised"
    /\ batch = "raised" => \A f \in Sources : fpc[f] = "queued"
    /\ batch = "done"
          => \A f \in WorkItems(files, rOnly) :
                fpc[f] = "done" /\ outcome[f] # "none"
    /\ ( /\ batch = "running"
         /\ \E f \in Sources : TaskFailed(f)
         /\ Rendering = {}
         /\ \E g \in WorkItems(files, rOnly) : fpc[g] = "queued" )
          => ENABLED (\E g \in Sources : RenderBegin(g))

C8_Witness ==
    /\ batch = "done"
    /\ parallel
    /\ Cardinality(WorkItems(files, rOnly)) = Cardinality(Sources)
    /\ \E f \in Sources :
          /\ f.kind = "python" /\ tool[f] = "raise" /\ "error" \in flog[f]
          /\ \A g \in Sources \ {f} : tool[g] = "ok" /\ reported[g] # {}

\* C9: a parallel run announces for every source the same generated files
\* as the sequential run over the same sources with the same tools
C9_ParallelEquivalence ==
    batch = "done"
        => \A f \in WorkItems(files, rOnly) :
              reported[f] =
                  SequentialRun(InOrder(WorkItems(files, rOnly)), tool, engine,
                                {}, [g \in Sources |-> {}])[f]

\* C10: a diagram whose compiler succeeds while CairoSVG is reported
\* unavailable ends after step 1 having written only its SVG, is recorded
\* as completed, and prints a warning and no error
C10_GracefulDegradation ==
    \A f \in files :
        ( /\ f.kind = "mermaid"
          /\ engine = "local"
          /\ CheckMermaidCli(tool[f])
          /\ ~CheckCairosvgAvailability(tool[f])
          /\ fpc[f] = "done" )
            => /\ WrittenBy(f) = {OutFile(f.stem, f.stem, "svg")}
               /\ reported[f] = {OutFile(f.stem, f.stem, "svg")}
               /\ flog[f] = {"warning"}
               /\ genStatus[f] = "returned"
               /\ outcome[f] = "completed"

C10_Witness ==
    /\ batch = "done"
    /\ engine = "local"
    /\ \E f \in files :
          /\ f.kind = "mermaid"
          /\ tool[f] = "svg_only"
          /\ outcome[f] = "completed"
          /\ PathsOn(disk) = {OutFile(f.stem, f.stem, "svg")}

(***************************************************************************)
(* Claims about run_command and the session layer's error handling         *)
(***************************************************************************)
\* the call that has just returned is run_command
RunCall == last.op = "runCommand"

\* C11: run_command with a session key whose session is obtained and passes
\* run_command's own liveness check executes by `docker exec` into exactly
\* that session's container and starts no `docker run` container for the
\* command (and launches no container at all when the session was already
\* tracked and live); run_command without a session key always runs a
\* throwaway container started with --rm, and its step leaves the session
\* table, the backend's containers and the id counter as they were.
C11_ExecOrThrowaway ==
    /\ [](RunCall =>
            /\ (last.key # "" /\ last.ret # None /\ last.alive) =>
                    /\ last.mode = "exec"
                    /\ last.target = last.ret
                    /\ sessions[last.key].container_id = last.ret
                    /\ last.opts = {}
                    /\ (last.found = "live" => last.launched = None)
            /\ last.key = "" =>
                    /\ last.mode = "throwaway"
                    /\ "--rm" \in last.opts
                    /\ "-d" \notin last.opts
                    /\ last.target = None
                    /\ last.ret = None /\ last.launched = None)
    /\ [][(last'.op = "runCommand" /\ last'.key = "") =>
            (sessions' = sessions /\ containers' = containers
             /\ nextId' = nextId)]_vars

C11_Witness ==
    /\ RunCall
    /\ last.key \in Keys
    /\ last.found = "live"
    /\ last.ret # None
    /\ last.alive
    /\ last.mode = "exec"
    /\ containers[last.target].state = "running"

Released ==
    /\ \A k \in Keys : sessions[k] = NoSession
    /\ \A c \in ContainerIds : containers[c].state # "running"

\* C13: in every run of a process that ends, from some point on the session
\* table is empty and every session container the run launched has been
\* stopped and removed.
C13_GuaranteedRelease == <>[]Released

C15_CleanupAllTearsDownEverySession ==
    [][ last'.op = "cleanupAll" =>
            /\ \A k \in Keys : sessions'[k] = NoSession
            /\ \A k \in Keys :
                  sessions[k] # NoSession => CleanupIssued(sessions[k]) ]_vars

(***************************************************************************)
(* Claims about aggressive cleanup, checked under SpecConfig               *)
(***************************************************************************)
\* C16: enable_aggressive_cleanup(True) leaves the timeout at 60 s and reuse
\* disabled, enable_aggressive_cleanup(False) at 300 s and enabled, and the
\* timeout is 300 s unless aggressive cleanup is on; while reuse is disabled
\* every getOrCreate returns no session and every run_command, with or
\* without a session key, runs a throwaway --rm container, and neither call
\* launches a container or touches the session table.
C16_AggressiveCleanupDisablesReuse ==
    /\ [](/\ timeout \in {SessionTimeoutAggressive, SessionTimeoutDefault}
          /\ timeout = SessionTimeoutAggressive => ~reuse
          /\ last.op = "enableAggressiveCleanup" =>
                (timeout = SessionTimeoutAggressive /\ ~reuse)
          /\ last.op = "disableAggressiveCleanup" =>
                (timeout = SessionTimeoutDefault /\ reuse)
          /\ (~reuse /\ last.op = "getOrCreate") =>
                (last.ret = None /\ last.launched = None)
          /\ (~reuse /\ RunCall) =>
                /\ last.mode = "throwaway"
                /\ "--rm" \in last.opts
                /\ last.target = None
                /\ last.ret = None /\ last.launched = None)
    /\ [][(~reuse /\ last'.op \in {"getOrCreate", "runCommand"}) =>
            (sessions' = sessions /\ containers' = containers
             /\ nextId' = nextId)]_vars

\* C16 witness: with aggressive cleanup on, a run_command for a key whose
\* session is still tracked and running has used a throwaway container
C16_Witness ==
    /\ ~reuse
    /\ timeout = SessionTimeoutAggressive
    /\ RunCall
    /\ last.key \in Keys
    /\ last.mode = "throwaway"
    /\ sessions[last.key] # NoSession
    /\ containers[sessions[last.key].container_id].state = "running"

(***************************************************************************)
(* Claims about the dispatch of render tasks, checked under SpecFig        *)
(***************************************************************************)
\* the pool size the specification gives for max_workers = mw
DocumentedPoolSize(mw) ==
    LET capped == IF mw < 8 THEN mw ELSE 8
    IN  IF capped > 1 THEN capped ELSE 1

\* generate_all_figures has gone past the choice between pool and loop
Dispatched == batch # "running" \/ \E f \in Sources : fpc[f] # "queued"

\* C17: once a batch is dispatched, a parallel batch of more than one work
\* item has been accepted by a pool of exactly max(1, min(max_workers, 8))
\* workers, and any other batch is rendered one item at a time.
C17_PoolSizeClamped ==
    Dispatched =>
        /\ UsesPool(files, rOnly, parallel) =>
                /\ batch # "raised"
                /\ Limit(files, rOnly, parallel, maxWorkers)
                        = DocumentedPoolSize(maxWorkers)
        /\ ~UsesPool(files, rOnly, parallel) =>
                Limit(files, rOnly, parallel, maxWorkers) = 1

\* C18: every path a render task writes lies in the subdirectory named
\* after the stem of its source, and no path is written by the render tasks
\* of two distinct sources.
C18_OutputIsolation ==
    /\ \A e \in disk : e.dir = e.writer.stem
    /\ \A f, g \in files : f # g => WrittenBy(f) \cap WrittenBy(g) = {}

\* the tasks of the batch that process_figure counted as completed / failed
CountedAs(o) == {f \in WorkItems(files, rOnly) : outcome[f] = o}

\* C19: a render task that has ended is recorded as failed exactly when its
\* tool was missing, exited non-zero or raised, or a conversion failed; and
\* when a parallel batch is done, completed + failed is the number of tasks
\* and failed is the number of tasks whose rendering failed.
C19_TaskOutcomeTruthful ==
    /\ \A f \in WorkItems(files, rOnly) :
          fpc[f] = "done" => (outcome[f] = "failed" <=> TaskFailed(f))
    /\ (batch = "done" /\ UsesPool(files, rOnly, parallel)) =>
          /\ Cardinality(CountedAs("completed")) + Cardinality(CountedAs("failed"))
                = Cardinality(WorkItems(files, rOnly))
          /\ Cardinality(CountedAs("failed"))
                = Cardinality({f \in WorkItems(files, rOnly) : TaskFailed(f)})

\* C20: every call of generate_all_figures returns (or raises), whatever the
\* external commands do, because each of them is bounded by a timeout.
C20_GenerateAllFiguresReturns == <>(batch # "running")

(***************************************************************************)
(* Persistence of warnings and errors (BuildManager.log)                   *)
(***************************************************************************)
\* a log() call at a level that is persisted
IsPersisted(c) == c.level \in FileLevels

\* p is a prefix of q
IsPrefix(p, q) == Len(p) <= Len(q) /\ SubSeq(q, 1, Len(p)) = p

WarningPositions ==
    {i \in DOMAIN blg.lines :
        /\ Len(blg.lines[i]) >= 3
        /\ blg.lines[i][1] = "Warning"
        /\ blg.lines[i][2] = "--"}

\* position in the .blg file of its k-th warning line
KthWarning(k) ==
    CHOOSE i \in WarningPositions :
        Cardinality({j \in WarningPositions : j < i}) = k - 1

\* C22: once the extraction step has run on a .blg file with n > 0 lines of
\* the form Warning--<message>, the report has exactly n entries, entry k is
\* numbered k and carries the message of the k-th such line of the file;
\* lines of any other form contribute no entry.
C22_WarningsExtractedInOrder ==
    (bibStep /\ blg.exists /\ WarningPositions # {}) =>
        /\ Len(bibtexLog.entries) = Cardinality(WarningPositions)
        /\ \A k \in 1..Cardinality(WarningPositions) :
            /\ bibtexLog.entries[k].n = k
            /\ bibtexLog.entries[k].msg
                 = SubSeq(blg.lines[KthWarning(k)], 3,
                          Len(blg.lines[KthWarning(k)]))

\* the step has run on a file with a line of another form followed by a
\* warning line
C22_Witness ==
    /\ bibStep
    /\ blg.exists
    /\ Len(blg.lines) = 2
    /\ WarningPositions = {2}
    /\ bibtexLog.entries = <<[n |-> 1, msg |-> <<"missing year in b">>]>>

\* the messages of the warning lines of the current .blg file
CurrentWarnings ==
    {SubSeq(blg.lines[i], 3, Len(blg.lines[i])) : i \in WarningPositions}

C24_FaultsBecomeStageFailures ==
    /\ result \in {"none", "true", "false"}
    /\ \A i \in DOMAIN finished :
        finished[i].outcome = "exception" =>
            /\ \E j \in DOMAIN logCalls :
                /\ logCalls[j].msg = finished[i].name
                /\ logCalls[j].level \in {"WARNING", "ERROR"}
                /\ \E k \in DOMAIN warningsLog.lines :
                      warningsLog.lines[k] = logCalls[j]
            /\ IF finished[i].name \in {"ValidatePdf", "WordCountAnalysis"}
               THEN finished[i].name \in warnings
               ELSE /\ i = Len(finished)
                    /\ Len(started) = Len(finished)
                    /\ terminal = "Failed"
                    /\ result \in {"none", "false"}

\* the typesetting stage has raised and the build has returned false
C24_Witness ==
    /\ finished # <<>>
    /\ finished[Len(finished)] = [name |-> "Compile", outcome |-> "exception"]
    /\ result = "false"

(***************************************************************************)
(* Re-running the pipeline                                                 *)
(***************************************************************************)
\* C25: when the pipeline has been run a second time on the unchanged
\* source tree, build_warnings.log has the content it had at the end of the
\* first run and the terminal state is the one of the first run.
C25_RerunIdempotent ==
    (run = 2 /\ result # "none") =>
        /\ warningsLog = firstRun.log
        /\ terminal = firstRun.terminal

(***************************************************************************)
(* Containerized compilation (run_latex_compilation)                       *)
(***************************************************************************)
\* the tools a compilation with p passes invokes, in order
ExpectedTools(p, bib) ==
    IF p = 0 THEN <<>>
    ELSE <<"pdflatex">>
         \o (IF bib THEN <<"bibtex">> ELSE <<>>)
         \o [j \in 1..(p - 1) |-> "pdflatex"]

\* C26: the results recorded so far are, in order, the first invocations of
\* the sequence pdflatex, bibtex (if and only if the .bib file exists),
\* pdflatex, ..., with `passes` pdflatex invocations in all, whatever the
\* exit codes; every invocation carries the session key latex_compilation;
\* and the list returned is that whole sequence.
C26_PassesAndOneBibtex ==
    /\ Len(results) <= Len(ExpectedTools(passes, bibFile))
    /\ \A n \in DOMAIN results :
        /\ results[n].tool = ExpectedTools(passes, bibFile)[n]
        /\ results[n].session_key = "latex_compilation"
    /\ latexPc = "returned" =>
        Len(results) = Len(ExpectedTools(passes, bibFile))

\* three passes with a bibliography have returned four results, the first
\* pass having exited non-zero
C26_Witness ==
    /\ latexPc = "returned"
    /\ passes = 3
    /\ bibFile
    /\ Len(results) = 4
    /\ results[1].returncode = "nonzero"
    /\ results[2].tool = "bibtex"

(***************************************************************************)
(* Sessions dropped from the table, checked under Spec                     *)
(***************************************************************************)
\* the step drops or replaces the session tracked for k, other than by
\* cleanup_all_sessions
DroppedByExpiry(k) ==
    /\ sessions[k] # NoSession
    /\ sessions'[k].container_id # sessions[k].container_id
    /\ last'.op # "cleanupAll"

\* C27: whenever a step drops a session from the table because its
\* liveness probe failed or its age exceeded the timeout, the container of
\* that session is no longer running after the step: no session container
\* stays in existence while untracked.
C27_DroppedSessionDestroyed ==
    [][\A k \in Keys :
          DroppedByExpiry(k)
              => containers'[sessions[k].container_id].state # "running"]_vars

(***************************************************************************)
(* Environment of a script run in a container, checked under Spec          *)
(***************************************************************************)
\* C28: whenever run_python_script / run_r_script has run a script for the
\* figure engine, by exec in a reused session or in a throwaway container,
\* the interpreter was started with RXIV_FIGURE_OUTPUT_DIR in its environment.
C28_OutputDirReachesScript ==
    (last.op = "runCommand" /\ last.key \in Keys)
        => "RXIV_FIGURE_OUTPUT_DIR" \in last.env

(***************************************************************************)
(* Concurrent callers on different keys, checked under SpecConc            *)
(***************************************************************************)
\* C30: a call of _get_or_create_session that no other thread's call for
\* the same key has overlapped never fails: no change another caller makes
\* to the session table during its cleanup pass makes it raise.
C30_TableMutationsAtomic ==
    \A t \in Threads : pc[t] = "raised" => call[t].overlap

(***************************************************************************)
(* Commands running in a session, checked under SpecExec                   *)
(***************************************************************************)
\* C29: while a command started by `docker exec` in a session's container is
\* still executing, that container is running: no other caller's expiry pass
\* has stopped and removed it.
C29_NoTeardownUnderRunningCommand ==
    \A t \in Threads :
        pc[t] = "exec" => containers[call[t].ret].state = "running"

(***************************************************************************)
(* Reconfiguration into aggressive cleanup, checked under SpecConfig       *)
(***************************************************************************)
\* C31: when enable_aggressive_cleanup(True) has just returned, the session
\* table is empty and no session container created before is still running.
C31_AggressiveCleanupTearsDown ==
    last.op = "enableAggressiveCleanup" =>
        /\ \A k \in Keys : sessions[k] = NoSession
        /\ \A c \in ContainerIds : containers[c].state # "running"

(***************************************************************************)
(* Teardown whose graceful stop does not complete, checked under Spec      *)
(***************************************************************************)
\* C32: whenever a call drops the session of its key from the table and the
\* `docker stop` it issued for that session did not complete (it timed out
\* or failed), the container has been torn down all the same: it is not
\* running after the call.
C32_ForcefulTeardownOnTimeout ==
    [][\A k \in Keys :
          (/\ sessions[k] # NoSession
           /\ sessions'[k].container_id # sessions[k].container_id
           /\ last'.key = k
           /\ "stop" \in last'.faults)
              => containers'[sessions[k].container_id].state # "running"]_vars

(***************************************************************************)
(* C33                                                                     *)
(***************************************************************************)
\* C33: while the workers of a parallel batch render, every line is written
\* holding the single print mutex: a work item that is inside a write to the
\* console holds print_lock, so no two of them write at once.
C33_ConsoleOutputSerialized ==
    /\ \A f \in Sources : f \in Writing => f \in printLock
    /\ Cardinality(Writing) <= 1

(***************************************************************************)
(* C34                                                                     *)
(***************************************************************************)
\* C34: when the render task of a script has ended, the files it announced
\* are exactly the png/pdf/svg/eps files of its output subdirectory that this
\* execution produced and whose name matches the script; a file present
\* before or written by another source is never announced.
C34_ReportedAreOwnNewFiles ==
    \A f \in Sources :
        (f.kind \in {"python", "r"} /\ fpc[f] = "done")
            => reported[f] = {p \in WrittenBy(f) :
                                 /\ p.dir = f.stem
                                 /\ p.ext \in {"png", "pdf", "svg", "eps"}
                                 /\ MatchesScript(f.stem, p.stem)}

(***************************************************************************)
(* C35                                                                     *)
(***************************************************************************)
\* C35: enable_aggressive_cleanup(True) directly followed by
\* enable_aggressive_cleanup(False) restores the session timeout and the
\* reuse flag to the values they had before the first of the two calls,
\* whatever the manager was constructed with.
C35_AggressiveCleanupReversible ==
    [][(/\ last.op = "enableAggressiveCleanup"
        /\ last'.op = "disableAggressiveCleanup")
            => /\ timeout' = last.cfg.timeout
               /\ reuse' = last.cfg.reuse]_vars

(***************************************************************************)
(* C36                                                                     *)
(***************************************************************************)
\* paths are sequences of components, the root first.  workspace_dir on the
\* host, and the mount point it is bound to in every container
HostWorkspace == <<"home", "user", "manuscript">>

MountRoot == <<"workspace">>

\* output_dir / <stem>: figure_dir.absolute() of a script with that stem
HostFigureDir(stem) == HostWorkspace \o <<"FIGURES", stem>>

\* py_file.resolve() / r_file.resolve()
HostScript(stem) == HostWorkspace \o <<"FIGURES", stem \o <<".", "s">>>>

\* Path.relative_to(base) for a path under base
RelativeTo(p, base) == SubSeq(p, Len(base) + 1, Len(p))

\* f"/workspace/{p.relative_to(self.workspace_dir)}"
ContainerPath(p) == MountRoot \o RelativeTo(p, HostWorkspace)

\* the value generate_python_figure and generate_r_figure give to an entry
\* of `environment`: str(figure_dir.absolute()), the host path as it is
EnvironmentValue(name, stem) == HostFigureDir(stem)

\* the paths a run_python_script / run_r_script call for the script of that
\* stem hands into the container: the script, the working directory, and
\* the values of the variables the command is started with
PathsAcross(c, stem) ==
    IF c.op # "runCommand" THEN {}
    ELSE {ContainerPath(HostScript(stem)), ContainerPath(HostFigureDir(stem))}
            \cup {EnvironmentValue(n, stem) : n \in c.env \cap ScriptEnvironment}

\* C36: every path a script run hands across the container boundary (the
\* script, the working directory, the figure output directory in the
\* environment) lies under the mount root /workspace and is no host path.
C36_PathsRelativeToMountRoot ==
    \A stem \in {StemFig1, StemPlot} :
        \A p \in PathsAcross(last, stem) :
            StartsWith(p, MountRoot) /\ ~StartsWith(p, HostWorkspace)

(***************************************************************************)
(* C37                                                                     *)
(***************************************************************************)
\* step 1 of the diagram f has ended well: mmdc exited 0 and wrote the SVG
CompilerSucceeded(f) ==
    /\ "mmdc" \in invoked[f]
    /\ tool[f] \in {"ok", "png_fails", "svg_only"}
    /\ OutFile(f.stem, f.stem, "svg") \in WrittenBy(f)

\* C37: a diagram is rendered in two steps in strict order: a conversion is
\* started only in the step after the diagram compiler has exited 0; when
\* step 1 fails no conversion is started; and once the conversion step has
\* run with a usable converter both target formats have been attempted,
\* also when the conversion of the first one failed.
C37_TwoStepConversion ==
    /\ [](\A f \in Sources : f.kind = "mermaid" =>
            /\ invoked[f] \cap {"png", "pdf"} # {} => CompilerSucceeded(f)
            /\ (fpc[f] = "done" /\ ~CompilerSucceeded(f))
                  => invoked[f] \cap {"png", "pdf"} = {}
            /\ (/\ fpc[f] = "done"
                /\ CompilerSucceeded(f)
                /\ CairosvgAvailable(engine, tool[f]))
                  => {"png", "pdf"} \subseteq invoked[f])
    /\ [][\A f \in Sources :
            invoked'[f] \cap {"png", "pdf"} # invoked[f] \cap {"png", "pdf"}
                => (fpc[f] = "step2" /\ CompilerSucceeded(f))]_vars

\* C37 witness: the PNG conversion of a diagram failed and the PDF one was
\* attempted and written all the same
C37_Witness ==
    \E f \in Sources :
        /\ f.kind = "mermaid"
        /\ fpc[f] = "done"
        /\ tool[f] = "png_fails"
        /\ invoked[f] = {"mmdc", "png", "pdf"}
        /\ OutFile(f.stem, f.stem, "pdf") \in WrittenBy(f)
        /\ OutFile(f.stem, f.stem, "png") \notin WrittenBy(f)
        /\ "error" \in flog[f]

(***************************************************************************)
(* C38                                                                     *)
(***************************************************************************)
\* the local tool of source f (mmdc or Rscript) is not installed
ToolMissing(f) ==
    /\ f \in WorkItems(files, rOnly)
    /\ f.kind \in {"mermaid", "r"}
    /\ engine = "local"
    /\ tool[f] = "missing"

\* C38: under the local engine a source whose tool (mmdc, Rscript) is not
\* installed is skipped with a warning: its task starts no external command,
\* writes and announces nothing, prints no error, raises nothing and is
\* recorded as completed; the batch does not raise and ends with every other
\* work item rendered.
C38_MissingToolSkipped ==
    /\ \A f \in Sources :
          (ToolMissing(f) /\ fpc[f] # "queued")
              => /\ fpc[f] = "done"
                 /\ invoked[f] = {}
                 /\ flog[f] = {"warning"}
                 /\ genStatus[f] = "returned"
                 /\ outcome[f] = "completed"
                 /\ WrittenBy(f) = {}
                 /\ reported[f] = {}
    /\ (\E f \in Sources : ToolMissing(f) /\ fpc[f] # "queued")
          => /\ batch # "raised"
             /\ batch = "done" => \A g \in WorkItems(files, rOnly) : fpc[g] = "done"
             /\ (/\ batch = "running"
                 /\ Rendering = {}
                 /\ \E g \in WorkItems(files, rOnly) : fpc[g] = "queued")
                   => ENABLED (\E g \in Sources : RenderBegin(g))

\* C38 witness: mmdc is missing, the diagram was skipped, and the R script
\* after it was run and announced its figure
C38_Witness ==
    /\ batch = "done"
    /\ \E f \in Sources :
          /\ f.kind = "mermaid" /\ ToolMissing(f) /\ fpc[f] = "done"
          /\ "warning" \in flog[f]
    /\ \E g \in Sources :
          /\ g.kind = "r" /\ tool[g] = "ok"
          /\ "Rscript" \in invoked[g]
          /\ reported[g] # {}

(***************************************************************************)
(* C39                                                                     *)
(***************************************************************************)
\* C39: in one generate_all_figures call no source is handed to a render
\* task twice or to a task of another kind than its suffix says, no file is
\* rendered that the scan did not find, in R-only mode only R files are
\* rendered, and when the call returns every file the scan found has been
\* handed to exactly one render task; in sequential and in parallel mode.
C39_EachSourceDispatchedOnce ==
    /\ \A f \in Sources :
          /\ Len(dispatched[f]) <= 1
          /\ dispatched[f] # <<>>
                => /\ f \in files
                   /\ dispatched[f][1] = f.kind
                   /\ rOnly => Suffix(f) = "R"
    /\ batch = "done"
          => \A f \in files :
                (~rOnly \/ Suffix(f) = "R") => Len(dispatched[f]) = 1

\* C39 witness: a parallel batch over a diagram, a Python script and an R
\* script has returned with each of them rendered once by its own generator
C39_Witness ==
    /\ batch = "done"
    /\ parallel
    /\ ~rOnly
    /\ Cardinality(files) = 3
    /\ \A f \in files : dispatched[f] = <<f.kind>>
    /\ \E f \in files : f.kind = "mermaid" /\ "mmdc" \in invoked[f]
    /\ \E f \in files : f.kind = "python" /\ "python" \in invoked[f]
    /\ \E f \in files : f.kind = "r" /\ "Rscript" \in invoked[f]

====
